---- MODULE Spec2Model ----
(***************************************************************************)
(* The polling coordinators of the J-Tech Digital HDMI matrix integration. *)
(*                                                                         *)
(* Two coordinators live in the repository:                                *)
(*   - custom_components/jtechdigital/coordinator.py, the one the          *)
(*     integration loads (variables pc, connected, outputs, sources, ...); *)
(*   - _coordinator.py, an earlier attribute-based coordinator (variables  *)
(*     prefixed with legacy_).                                             *)
(* The media player entities of media_player.py call the command methods   *)
(* of the first coordinator (variables of the section "State of the        *)
(* command path").                                                         *)
(* A Python value that may be None is modelled as None or Some(v).         *)
(***************************************************************************)
EXTENDS Integers, Sequences, FiniteSets, TLC

\* Largest number of outputs / sources a device response names.
MaxOutputs == 2
MaxSources == 2
\* Number of poll cycles a behaviour runs.
MaxCycles == 2
\* Number of poll cycles followed fetch by fetch.
FanoutCycles == 1

None == [none |-> TRUE]
Some(v) == [none |-> FALSE, val |-> v]

ERROR_CONNECT_FAILED == "Failed to connect"
ERROR_FETCH_DATA_FAILED == "Failed to fetch data"
ERROR_AUTH_FAILED == "Authentication failed"
ERROR_UNKNOWN == "Unknown error occurred"

\* The seven endpoints of _fetch_status, under the keys of the statuses dict.
Endpoints == {"status", "source", "output", "cec", "network", "system", "web_details"}

(***************************************************************************)
(* Device responses (the records the device client returns).               *)
(***************************************************************************)
OutputNameTable == <<"TV1", "TV2", "TV3", "TV4">>
SourceNameTable == <<"Blu-ray", "Game", "Cable", "PC">>

\* n entries, all equal to v
Repeat(v, n) == [i \in 1..n |-> v]

\* An output status whose arrays all have the length of selected_sources.
OutputStatus(sel) ==
    [power |-> TRUE,
     output_names |-> SubSeq(OutputNameTable, 1, Len(sel)),
     selected_sources |-> sel,
     output_cat_names |-> SubSeq(OutputNameTable, 1, Len(sel)),
     connected_outputs |-> Repeat(TRUE, Len(sel)),
     connected_cat_outputs |-> Repeat(FALSE, Len(sel)),
     enabled_outputs |-> Repeat(TRUE, Len(sel)),
     enabled_cat_outputs |-> Repeat(FALSE, Len(sel)),
     selected_output_scalers |-> Repeat(0, Len(sel))]

\* A source status naming m sources.
SourceStatus(m) ==
    [power |-> TRUE,
     source_names |-> SubSeq(SourceNameTable, 1, m),
     active_sources |-> Repeat(TRUE, m),
     edid_indexes |-> Repeat(0, m)]

DeviceStatus(p) == [power |-> p, model |-> "JTECH-8KHDMX44", version |-> "1.2"]

NetworkStatus ==
    [hostname |-> "matrix.local", ipaddress |-> "192.168.1.10",
     subnet |-> "255.255.255.0", gateway |-> "192.168.1.1",
     macaddress |-> "00:11:22:33:44:55", dhcp |-> FALSE,
     telnetport |-> 23, tcpport |-> 8000]

SystemStatus == [power |-> TRUE, baudrate_index |-> 0, beep |-> TRUE, lock |-> FALSE, mode |-> 0]

WebDetails == [title |-> "HDMI Matrix"]

CecStatus(outs, srcs) == [selected_cec_outputs |-> outs, selected_cec_sources |-> srcs]

StatusResponses == {None} \cup {Some(DeviceStatus(p)) : p \in BOOLEAN}
SourceResponses == {None} \cup {Some(SourceStatus(m)) : m \in 0..MaxSources}
OutputResponses ==
    {None} \cup {Some(OutputStatus(sel)) :
                    sel \in UNION {[1..n -> 0..MaxSources] : n \in 0..MaxOutputs}}
CecResponses == {None, Some(CecStatus({0}, {1})), Some(CecStatus({}, {}))}
NetworkResponses == {None, Some(NetworkStatus)}
SystemResponses == {None, Some(SystemStatus)}
WebResponses == {None, Some(WebDetails)}

\* The reference response of each endpoint.
Reference ==
    [status |-> Some(DeviceStatus(TRUE)),
     source |-> Some(SourceStatus(MaxSources)),
     output |-> Some(OutputStatus(Repeat(1, MaxOutputs))),
     cec |-> Some(CecStatus({0}, {1})),
     network |-> Some(NetworkStatus),
     system |-> Some(SystemStatus),
     web_details |-> Some(WebDetails)]

AllResponses ==
    [status : StatusResponses, source : SourceResponses, output : OutputResponses,
     cec : CecResponses, network : NetworkResponses, system : SystemResponses,
     web_details : WebResponses]

\* The results of one fan-out the model draws from: every pattern of failed
\* endpoints over the reference responses (with either power value), and every
\* response of one of the routing endpoints (output, source, cec) beside the
\* reference responses of all the others.
DeviceResponses ==
    {r \in AllResponses :
        \/ \A e \in Endpoints \ {"status"} : r[e] \in {None, Reference[e]}
        \/ /\ \A e \in {"status", "network", "system", "web_details"} : r[e] = Reference[e]
           /\ Cardinality({e \in {"output", "source", "cec"} : r[e] # Reference[e]}) <= 1}

(***************************************************************************)
(* Helpers for Python lists and dicts.                                     *)
(***************************************************************************)
\* The 1-based positions p of seq, in increasing order, with seq[p] = v.
RECURSIVE PositionsOf(_, _, _)
PositionsOf(seq, v, from) ==
    IF from > Len(seq) THEN <<>>
    ELSE IF seq[from] = v THEN <<from>> \o PositionsOf(seq, v, from + 1)
    ELSE PositionsOf(seq, v, from + 1)

EmptyDict == [k \in {} |-> TRUE]

Range(seq) == {seq[i] : i \in DOMAIN seq}

(***************************************************************************)
(* State of the coordinator.                                               *)
(***************************************************************************)
VARIABLES
    pc,            \* position of _async_update_data: idle, connecting, fetching, fetched
    client,        \* self._client is set
    connected,     \* self.connected
    outputs,       \* self.outputs
    sources,       \* self.sources
    data,          \* coordinator.data, the value _async_update_data returned last
    statuses,      \* the dict _fetch_status returned to the running cycle
    failed,        \* the endpoints whose fetch raised in the last fan-out
    result,        \* how the last cycle ended
    connectCalls,  \* calls of client.connect in the running or last cycle
    connectOutcome,\* what that call did: "none" (no call), "pending", or a ConnectOutcomes value
    fetchIssued,   \* the fan-out was started in the running or last cycle
    cycle,         \* number of cycles started
    outputsCycle,  \* the cycle that assigned self.outputs
    sourcesCycle,  \* the cycle that assigned self.sources
    dataCycle,     \* the cycle that returned data
    clientsConstructed, \* number of JtechClient objects (and HTTP sessions) built
    settled,       \* per endpoint, the fetch of the running or last fan-out:
                   \* "unstarted", "pending", "ok" or "failed"
    fetchExceptions \* the exception types the fetches of that fan-out raised

vars == <<pc, client, connected, outputs, sources, data, statuses, failed, result,
          connectCalls, connectOutcome, fetchIssued, cycle, outputsCycle, sourcesCycle, dataCycle,
          clientsConstructed, settled, fetchExceptions>>

\* State of the earlier coordinator (_coordinator.py).
VARIABLES
    legacy_pc,              \* position of _async_update_data: idle, connect, status,
                            \* video, source, output, system
    legacy_connected,       \* self.connected
    legacy_power,           \* self.power
    legacy_model,           \* self.model
    legacy_version,         \* self.version
    legacy_mode,            \* self.mode
    legacy_outputs_sources, \* self.outputs_sources
    legacy_sources_names,   \* self.sources_names
    legacy_outputs_names,   \* self.outputs_names
    legacy_result,          \* how the last cycle ended
    legacy_raised,          \* what the device client raised in the last cycle, or "none"
    legacy_raised_at,       \* the position at which it raised
    legacy_cycle            \* number of cycles started

legacy_vars == <<legacy_pc, legacy_connected, legacy_power, legacy_model, legacy_version,
                 legacy_mode, legacy_outputs_sources, legacy_sources_names,
                 legacy_outputs_names, legacy_result, legacy_raised, legacy_raised_at,
                 legacy_cycle>>

coordinator_vars == vars

\* State of the command path (media_player.py and the command methods of
\* coordinator.py).
VARIABLES
    entity_pc,        \* position of the running entity method: idle, power (about
                      \* to call a command), awaiting (in a command), refresh (about
                      \* to await async_request_refresh), refreshing (in it) or
                      \* refresh_cycle (in it, its cycle running)
    entity_result,    \* how the last entity method ended
    lastCommand,      \* the coordinator command method called last, with its arguments
    clientCalls,      \* the device-client calls made by that command method
    commandReturn,    \* what that command method returned or raised
    refreshRequests   \* calls of async_request_refresh by the running or last entity method

entity_vars == <<entity_pc, entity_result, lastCommand, clientCalls, commandReturn,
                 refreshRequests>>

\* State of the media player platform (media_player.py).
VARIABLES
    setupOutputs,     \* None until async_setup_entry of the platform ran, then the
                      \* number of per-output entities it created
    entityMethod,     \* the entity method called last, with its arguments, the entity's
                      \* options and the source names it read
    plan,             \* the commands the running async_turn_on / async_turn_off has
                      \* still to issue, in order
    issued            \* the coordinator commands that method has called, in order

player_vars == <<setupOutputs, entityMethod, plan, issued>>

\* State of the config flow (config_flow.py) and of the entry setup (__init__.py).
VARIABLES
    flow_step,        \* position of the flow
    flow_entry,       \* self.entry is set (the flow is a reauthentication)
    flow_creds,       \* the user and password self._data holds, "none" before any
    flow_errors,      \* the error of the form shown last, "" when there is none
    flow_connect,     \* the last call of connect: its credentials, whether the
                      \* user submitted them, and what the call did
    flow_submitted,   \* the authorize form has been submitted in this flow
    entry_created,    \* async_create_entry was called
    entry_updated,    \* async_update_entry was called
    reload_pc,        \* position of the reload awaited by _async_update_entry: none,
                      \* unload, unloading, setup, setting_up or done
    entry_state,      \* position of async_setup_entry / async_unload_entry
    registered,       \* hass.data[DOMAIN] holds a coordinator under the entry id
    platforms,        \* the platforms of the entry are set up
    firstRefresh,     \* how the first refresh of the coordinator built last ended
    lastUnload        \* what async_unload_platforms returned last

flow_vars == <<flow_step, flow_entry, flow_creds, flow_errors, flow_connect, flow_submitted,
               entry_created, entry_updated, reload_pc>>

setup_vars == <<entry_state, registered, platforms, firstRefresh, lastUnload>>

host_vars == <<flow_vars, setup_vars>>

all_vars == <<coordinator_vars, legacy_vars, entity_vars, player_vars, host_vars>>

Ok == [exc |-> "none", msg |-> ""]
Raised(exc, msg) == [exc |-> exc, msg |-> msg]

Init ==
    /\ pc = "idle"
    /\ client = FALSE
    /\ connected = FALSE
    /\ outputs = Some(<<>>)
    /\ sources = Some(<<>>)
    /\ data = None
    /\ statuses = None
    /\ failed = {}
    /\ result = Raised("never", "")
    /\ connectCalls = 0
    /\ connectOutcome = "none"
    /\ fetchIssued = FALSE
    /\ cycle = 0
    /\ outputsCycle = 0
    /\ sourcesCycle = 0
    /\ dataCycle = 0
    /\ clientsConstructed = 0
    /\ settled = [e \in Endpoints |-> "unstarted"]
    /\ fetchExceptions = {}
    /\ entity_pc = "idle"
    /\ entity_result = Raised("never", "")
    /\ lastCommand = None
    /\ clientCalls = <<>>
    /\ commandReturn = None
    /\ refreshRequests = 0
    /\ setupOutputs = None
    /\ entityMethod = None
    /\ plan = <<>>
    /\ issued = <<>>
    /\ flow_step = "start"
    /\ flow_entry = FALSE
    /\ flow_creds = "none"
    /\ flow_errors = ""
    /\ flow_connect = None
    /\ flow_submitted = FALSE
    /\ entry_created = FALSE
    /\ entry_updated = FALSE
    /\ reload_pc = "none"
    /\ entry_state = "not_loaded"
    /\ registered = FALSE
    /\ platforms = FALSE
    /\ firstRefresh = "none"
    /\ lastUnload = "none"
    /\ legacy_pc = "idle"
    /\ legacy_connected = FALSE
    /\ legacy_power = None
    /\ legacy_model = None
    /\ legacy_version = None
    /\ legacy_mode = None
    /\ legacy_outputs_sources = <<>>
    /\ legacy_sources_names = <<>>
    /\ legacy_outputs_names = <<>>
    /\ legacy_result = Raised("never", "")
    /\ legacy_raised = "none"
    /\ legacy_raised_at = "none"
    /\ legacy_cycle = 0

(***************************************************************************)
(* Reconciliation of the fetched statuses.                                 *)
(***************************************************************************)
\* The outcome of a Python call: a returned value or a raised exception.
Return(v) == [raised |-> FALSE, value |-> v]
Raise == [raised |-> TRUE, value |-> None]

\* Every per-output array can be indexed by every index of output_names.
OutputArraysCover(os) ==
    LET n == Len(os.output_names)
    IN  /\ Len(os.selected_sources) >= n
        /\ Len(os.output_cat_names) >= n
        /\ Len(os.connected_outputs) >= n
        /\ Len(os.connected_cat_outputs) >= n
        /\ Len(os.enabled_outputs) >= n
        /\ Len(os.enabled_cat_outputs) >= n
        /\ Len(os.selected_output_scalers) >= n

\* The JtechOutputInfo built for the 0-based index idx.
JtechOutputInfo(os, cec, idx) ==
    [source |-> os.selected_sources[idx + 1],
     name |-> os.output_names[idx + 1],
     cat_name |-> os.output_cat_names[idx + 1],
     connected |-> os.connected_outputs[idx + 1],
     cat_connected |-> os.connected_cat_outputs[idx + 1],
     enabled |-> os.enabled_outputs[idx + 1],
     cat_enabled |-> os.enabled_cat_outputs[idx + 1],
     scaler |-> os.selected_output_scalers[idx + 1],
     cec_selected |-> idx \in cec.selected_cec_outputs]

\* _handle_output_update: a list, None when the output status or its names are
\* absent, or an exception (cec_status is None, or an array is too short).
handle_output_update(st) ==
    IF ~st.output.none /\ st.output.val.output_names # <<>>
    THEN IF st.cec.none \/ ~OutputArraysCover(st.output.val)
         THEN Raise
         ELSE Return(Some([i \in 1..Len(st.output.val.output_names) |->
                              JtechOutputInfo(st.output.val, st.cec.val, i - 1)]))
    ELSE Return(None)

SourceArraysCover(ss) ==
    /\ Len(ss.active_sources) >= Len(ss.source_names)
    /\ Len(ss.edid_indexes) >= Len(ss.source_names)

\* The JtechSourceInfo built for the 0-based index idx: outputs holds
\* output_idx + 1 for every output_idx with selected_sources[output_idx] == idx.
JtechSourceInfo(ss, os, cec, idx) ==
    [outputs |-> PositionsOf(os.selected_sources, idx, 1),
     name |-> ss.source_names[idx + 1],
     active |-> ss.active_sources[idx + 1],
     edid_index |-> ss.edid_indexes[idx + 1],
     cec_selected |-> idx \in cec.selected_cec_sources]

\* _handle_source_update: a list, None when the source status or its names are
\* absent, or an exception (cec_status or output_status is None, or an array
\* is too short).
handle_source_update(st) ==
    IF ~st.source.none /\ st.source.val.source_names # <<>>
    THEN IF st.cec.none \/ st.output.none \/ ~SourceArraysCover(st.source.val)
         THEN Raise
         ELSE Return(Some([i \in 1..Len(st.source.val.source_names) |->
                              JtechSourceInfo(st.source.val, st.output.val, st.cec.val, i - 1)]))
    ELSE Return(None)

\* The part of combined_data each status contributes.
status_data(status) ==
    IF status.none THEN EmptyDict
    ELSE ("power" :> status.val.power) @@ ("model" :> status.val.model)
         @@ ("version" :> status.val.version)

network_data(network_status) ==
    IF network_status.none THEN EmptyDict
    ELSE ("hostname" :> network_status.val.hostname)
         @@ ("ipaddress" :> network_status.val.ipaddress)
         @@ ("subnet" :> network_status.val.subnet)
         @@ ("gateway" :> network_status.val.gateway)
         @@ ("macaddress" :> network_status.val.macaddress)
         @@ ("dhcp" :> network_status.val.dhcp)
         @@ ("telnetport" :> network_status.val.telnetport)
         @@ ("tcpport" :> network_status.val.tcpport)

system_data(system_status) ==
    IF system_status.none THEN EmptyDict
    ELSE ("baudrate_index" :> system_status.val.baudrate_index)
         @@ ("beep" :> system_status.val.beep)
         @@ ("lock" :> system_status.val.lock)
         @@ ("mode" :> system_status.val.mode)

web_data(web_details) ==
    IF web_details.none THEN EmptyDict
    ELSE ("title" :> web_details.val.title)

\* combined_data with power also taken from the system status when the device
\* status is absent.
combined_data_power_fallback(st) ==
    (IF st.status.none /\ ~st.system.none
     THEN ("power" :> st.system.val.power) ELSE EmptyDict)
    @@ status_data(st.status) @@ network_data(st.network)
    @@ system_data(st.system) @@ web_data(st.web_details)

\* combined_data as returned by a cycle that did not raise: built from an empty
\* dict in every cycle.
combined_data(st) ==
    status_data(st.status) @@ network_data(st.network)
    @@ system_data(st.system) @@ web_data(st.web_details)

(***************************************************************************)
(* The poll cycle, _async_update_data, one action per resumption.          *)
(***************************************************************************)
ConnectOutcomes == {"ok", "JtechAuthError", "JtechConnectionError", "Exception"}

\* clients_after_ensure without the test "if not self._client": every cycle
\* builds a client.
clients_after_ensure_always(has_client, n) == n + 1

\* The test "if not self._client" of _client_ensure: the number of clients
\* built so far, after the call.
clients_after_ensure(has_client, n) == IF has_client THEN n ELSE n + 1

\* _client_ensure up to the await of connect: the client is built when there is
\* none, and connect is called only when not connected.  ensure_started is
\* what it does to the coordinator, client_ensure the step of a scheduled
\* refresh.
ensure_started ==
    /\ pc = "idle"
    /\ cycle < MaxCycles
    /\ cycle' = cycle + 1
    /\ client' = TRUE
    /\ clientsConstructed' = clients_after_ensure(client, clientsConstructed)
    /\ fetchExceptions' = {}
    /\ IF connected
       THEN /\ pc' = "fetching"
            /\ connectCalls' = 0
            /\ connectOutcome' = "none"
            /\ fetchIssued' = TRUE
            /\ settled' = [e \in Endpoints |-> "pending"]
       ELSE /\ pc' = "connecting"
            /\ connectCalls' = 1
            /\ connectOutcome' = "pending"
            /\ fetchIssued' = FALSE
            /\ settled' = [e \in Endpoints |-> "unstarted"]
    /\ UNCHANGED <<connected, outputs, sources, data, statuses, failed, result,
                   outputsCycle, sourcesCycle, dataCycle>>

client_ensure ==
    /\ ensure_started
    /\ UNCHANGED <<legacy_vars, entity_vars, player_vars, host_vars>>

\* connect_raises without the clause for JtechAuthError: every exception of
\* connect falls through to the generic clause.
connect_raises_generic(outcome) ==
    IF outcome = "JtechConnectionError"
    THEN Raised("UpdateFailed", ERROR_CONNECT_FAILED)
    ELSE Raised("UpdateFailed", ERROR_UNKNOWN)

\* connect_raises with every exception of connect treated as an
\* authentication failure.
connect_raises_reauth(outcome) == Raised("ConfigEntryAuthFailed", ERROR_AUTH_FAILED)

\* The except clauses of _client_connect: what each exception of connect becomes.
connect_raises(outcome) ==
    CASE outcome = "JtechAuthError" -> Raised("ConfigEntryAuthFailed", ERROR_AUTH_FAILED)
      [] outcome = "JtechConnectionError" -> Raised("UpdateFailed", ERROR_CONNECT_FAILED)
      [] OTHER -> Raised("UpdateFailed", ERROR_UNKNOWN)

\* client_connect with the exception of connect logged and swallowed: the
\* cycle goes on to the fan-out.
client_connect_swallow(outcome) ==
    /\ pc = "connecting"
    /\ connectOutcome' = outcome
    /\ connected' = (outcome = "ok")
    /\ pc' = "fetching"
    /\ fetchIssued' = TRUE
    /\ settled' = [e \in Endpoints |-> "pending"]
    /\ UNCHANGED <<client, outputs, sources, data, statuses, failed, result, connectCalls,
                   cycle, outputsCycle, sourcesCycle, dataCycle, clientsConstructed,
                   fetchExceptions>>
    /\ UNCHANGED <<legacy_vars, entity_vars, player_vars, host_vars>>

\* _client_connect after the await: connect returned or raised.  The call is
\* outside the try block of _async_update_data, so what it raises leaves the cycle.
client_connect(outcome) ==
    /\ pc = "connecting"
    /\ connectOutcome' = outcome
    /\ IF outcome = "ok"
       THEN /\ connected' = TRUE
            /\ pc' = "fetching"
            /\ fetchIssued' = TRUE
            /\ settled' = [e \in Endpoints |-> "pending"]
            /\ UNCHANGED result
       ELSE /\ connected' = FALSE
            /\ pc' = "idle"
            /\ result' = connect_raises(outcome)
            /\ UNCHANGED <<fetchIssued, settled>>
    /\ UNCHANGED <<client, outputs, sources, data, statuses, failed, connectCalls,
                   cycle, outputsCycle, sourcesCycle, dataCycle, clientsConstructed,
                   fetchExceptions>>
    /\ UNCHANGED <<legacy_vars, entity_vars, player_vars, host_vars>>

\* _fetch_status: the gather of the seven fetches has settled; a fetch that
\* raised is None in the dict.  This view of the fan-out draws no exception
\* types: a fetch that failed raised some Exception.
fetch_status(r) ==
    /\ pc = "fetching"
    /\ statuses' = Some(r)
    /\ failed' = {e \in Endpoints : r[e].none}
    /\ settled' = [e \in Endpoints |-> IF r[e].none THEN "failed" ELSE "ok"]
    /\ fetchExceptions' = IF \E e \in Endpoints : r[e].none THEN {"Exception"} ELSE {}
    /\ pc' = "fetched"
    /\ UNCHANGED <<client, connected, outputs, sources, data, result, connectCalls,
                   connectOutcome, fetchIssued, cycle, outputsCycle, sourcesCycle, dataCycle,
                   clientsConstructed>>
    /\ UNCHANGED <<legacy_vars, entity_vars, player_vars, host_vars>>

\* async_update_data with the except clauses leaving self.connected as it is.
async_update_data_keep_connected ==
    /\ pc = "fetched"
    /\ pc' = "idle"
    /\ statuses' = None
    /\ LET st == statuses.val
           o == handle_output_update(st)
           s == handle_source_update(st)
       IN  IF o.raised
           THEN /\ UNCHANGED connected
                /\ result' = Raised("UpdateFailed", ERROR_FETCH_DATA_FAILED)
                /\ UNCHANGED <<outputs, sources, data, outputsCycle, sourcesCycle, dataCycle>>
           ELSE IF s.raised
           THEN /\ outputs' = o.value
                /\ outputsCycle' = cycle
                /\ UNCHANGED connected
                /\ result' = Raised("UpdateFailed", ERROR_FETCH_DATA_FAILED)
                /\ UNCHANGED <<sources, data, sourcesCycle, dataCycle>>
           ELSE /\ outputs' = o.value
                /\ outputsCycle' = cycle
                /\ sources' = s.value
                /\ sourcesCycle' = cycle
                /\ data' = Some(combined_data(st))
                /\ dataCycle' = cycle
                /\ result' = Ok
                /\ UNCHANGED connected
    /\ UNCHANGED <<client, failed, connectCalls, connectOutcome, fetchIssued, cycle,
                   clientsConstructed, settled, fetchExceptions>>
    /\ UNCHANGED <<legacy_vars, entity_vars, player_vars, host_vars>>

\* The rest of _async_update_data, without a suspension: the two handlers, the
\* merge, and either the return (the coordinator then stores the returned dict
\* as its data) or the except clause.
async_update_data ==
    /\ pc = "fetched"
    /\ pc' = "idle"
    /\ statuses' = None
    /\ LET st == statuses.val
           o == handle_output_update(st)
           s == handle_source_update(st)
       IN  IF o.raised
           THEN /\ connected' = FALSE
                /\ result' = Raised("UpdateFailed", ERROR_FETCH_DATA_FAILED)
                /\ UNCHANGED <<outputs, sources, data, outputsCycle, sourcesCycle, dataCycle>>
           ELSE IF s.raised
           THEN /\ outputs' = o.value
                /\ outputsCycle' = cycle
                /\ connected' = FALSE
                /\ result' = Raised("UpdateFailed", ERROR_FETCH_DATA_FAILED)
                /\ UNCHANGED <<sources, data, sourcesCycle, dataCycle>>
           ELSE /\ outputs' = o.value
                /\ outputsCycle' = cycle
                /\ sources' = s.value
                /\ sourcesCycle' = cycle
                /\ data' = Some(combined_data(st))
                /\ dataCycle' = cycle
                /\ result' = Ok
                /\ UNCHANGED connected
    /\ UNCHANGED <<client, failed, connectCalls, connectOutcome, fetchIssued, cycle,
                   clientsConstructed, settled, fetchExceptions>>
    /\ UNCHANGED <<legacy_vars, entity_vars, player_vars, host_vars>>

Next ==
    \/ client_ensure
    \/ \E outcome \in ConnectOutcomes : client_connect(outcome)
    \/ \E r \in DeviceResponses : fetch_status(r)
    \/ async_update_data

Spec == Init /\ [][Next]_all_vars

(***************************************************************************)
(* The fan-out of _fetch_status at the grain of its seven tasks: gather    *)
(* schedules every fetch before the cycle suspends, each settles on its    *)
(* own, and the cycle resumes when gather returns.                         *)
(***************************************************************************)
\* gather_done without return_exceptions=True: the first exception is
\* propagated to the awaiting cycle at once.
gather_done_first_exception(s) ==
    \/ \E e \in Endpoints : s[e] = "failed"
    \/ \A e \in Endpoints : s[e] \in {"ok", "failed"}

\* asyncio.gather(*tasks, return_exceptions=True) returns when every awaitable
\* has returned or raised.
gather_done(s) == \A e \in Endpoints : s[e] \in {"ok", "failed"}

\* What one fetch does: it returns ("ok") or raises one of these exceptions.
FetchOutcomes == {"ok", "JtechAuthError", "JtechConnectionError", "Exception"}

\* The fetch of endpoint e returns or raises.
fetch_settle(e, outcome) ==
    /\ pc = "fetching"
    /\ settled[e] = "pending"
    /\ settled' = [settled EXCEPT ![e] = IF outcome = "ok" THEN "ok" ELSE "failed"]
    /\ fetchExceptions' = fetchExceptions \cup ({outcome} \ {"ok"})
    /\ UNCHANGED <<pc, client, connected, outputs, sources, data, statuses, failed, result,
                   connectCalls, connectOutcome, fetchIssued, cycle, outputsCycle,
                   sourcesCycle, dataCycle, clientsConstructed>>
    /\ UNCHANGED <<legacy_vars, entity_vars, player_vars, host_vars>>

\* gather returns and _fetch_status builds the dict: the response of a fetch
\* that returned, None for one that did not.
fetch_gathered ==
    /\ pc = "fetching"
    /\ gather_done(settled)
    /\ statuses' = Some([e \in Endpoints |-> IF settled[e] = "ok" THEN Reference[e] ELSE None])
    /\ failed' = {e \in Endpoints : settled[e] = "failed"}
    /\ pc' = "fetched"
    /\ UNCHANGED <<client, connected, outputs, sources, data, result, connectCalls,
                   connectOutcome, fetchIssued, cycle, outputsCycle, sourcesCycle, dataCycle,
                   clientsConstructed, settled, fetchExceptions>>
    /\ UNCHANGED <<legacy_vars, entity_vars, player_vars, host_vars>>

\* A cycle followed fetch by fetch starts.
fanout_client_ensure ==
    /\ cycle < FanoutCycles
    /\ client_ensure

FanoutNext ==
    \/ fanout_client_ensure
    \/ \E outcome \in ConnectOutcomes : client_connect(outcome)
    \/ \E e \in Endpoints, outcome \in FetchOutcomes : fetch_settle(e, outcome)
    \/ fetch_gathered
    \/ async_update_data

SpecFanout == Init /\ [][FanoutNext]_all_vars

(***************************************************************************)
(* The poll cycle repeated without end (the coordinator polls every ten    *)
(* seconds for as long as the entry is loaded).                            *)
(***************************************************************************)
\* client_ensure for the cycles after cycle MaxCycles, whose number is no
\* longer counted.
ensure_started_steady ==
    /\ pc = "idle"
    /\ cycle = MaxCycles
    /\ client' = TRUE
    /\ clientsConstructed' = clients_after_ensure(client, clientsConstructed)
    /\ fetchExceptions' = {}
    /\ IF connected
       THEN /\ pc' = "fetching"
            /\ connectCalls' = 0
            /\ connectOutcome' = "none"
            /\ fetchIssued' = TRUE
            /\ settled' = [e \in Endpoints |-> "pending"]
       ELSE /\ pc' = "connecting"
            /\ connectCalls' = 1
            /\ connectOutcome' = "pending"
            /\ fetchIssued' = FALSE
            /\ settled' = [e \in Endpoints |-> "unstarted"]
    /\ UNCHANGED <<connected, outputs, sources, data, statuses, failed, result,
                   cycle, outputsCycle, sourcesCycle, dataCycle>>

client_ensure_steady ==
    /\ ensure_started_steady
    /\ UNCHANGED <<legacy_vars, entity_vars, player_vars, host_vars>>

\* The results of a fan-out drawn for the endless run: the reference
\* responses with no fetch, one fetch or every fetch failing.
OutageResponses ==
    {r \in DeviceResponses :
        /\ \A e \in Endpoints : r[e] \in {None, Reference[e]}
        /\ Cardinality({e \in Endpoints : r[e].none}) \in {0, 1, Cardinality(Endpoints)}}

OutageNext ==
    \/ client_ensure
    \/ client_ensure_steady
    \/ \E outcome \in ConnectOutcomes : client_connect(outcome)
    \/ \E r \in OutageResponses : fetch_status(r)
    \/ async_update_data

\* The update interval starts a cycle again and again, and every awaited call
\* of a running cycle returns or raises.
SpecOutage == Init /\ [][OutageNext]_all_vars /\ WF_all_vars(OutageNext)

(***************************************************************************)
(* The command path: the command methods of the coordinator and the        *)
(* entity methods of media_player.py that call them.                       *)
(***************************************************************************)
\* CEC command codes drawn for async_send_cec_output / async_send_cec_source.
CecCommands == {1, 5}

\* What a command call of the device client does: it returns a success
\* boolean or raises.
Returned(b) == [exc |-> "none", value |-> b]
Pending == [exc |-> "pending", value |-> FALSE]
Threw(exc) == [exc |-> exc, value |-> FALSE]
CommandErrors == {"JtechConnectionError", "Exception"}
CallOutcomes == {Returned(b) : b \in BOOLEAN} \cup {Threw(exc) : exc \in CommandErrors}

\* The command methods of the coordinator with their integer arguments.
CoordinatorCommands ==
    {[method |-> m, ints |-> <<o>>] :
        m \in {"async_enable_output", "async_enable_cat_output",
               "async_disable_output", "async_disable_cat_output"},
        o \in 1..MaxOutputs}
    \cup {[method |-> "async_select_source", ints |-> <<o, src>>] :
            o \in 1..MaxOutputs, src \in 1..MaxSources}
    \cup {[method |-> "async_send_cec_output", ints |-> <<o, c>>] :
            o \in 1..MaxOutputs, c \in CecCommands}
    \cup {[method |-> "async_send_cec_source", ints |-> <<src, c>>] :
            src \in 1..MaxSources, c \in CecCommands}
    \cup {[method |-> m, ints |-> <<>>] : m \in {"async_power_on", "async_power_off"}}

\* The device-client call a command method makes: the client method, the
\* integer arguments passed on, the boolean literal added, and what the call
\* did (Pending while it is awaited).
client_call(cmd, outcome) ==
    [method |->
        CASE cmd.method \in {"async_enable_output", "async_disable_output"} -> "set_output_stream"
          [] cmd.method \in {"async_enable_cat_output", "async_disable_cat_output"}
                -> "set_output_cat_stream"
          [] cmd.method = "async_select_source" -> "set_video_source"
          [] cmd.method = "async_send_cec_output" -> "send_cec_output"
          [] cmd.method = "async_send_cec_source" -> "send_cec_source"
          [] OTHER -> "set_power",
     ints |-> cmd.ints,
     flags |->
        CASE cmd.method \in {"async_enable_output", "async_enable_cat_output",
                             "async_power_on"} -> <<TRUE>>
          [] cmd.method \in {"async_disable_output", "async_disable_cat_output",
                             "async_power_off"} -> <<FALSE>>
          [] OTHER -> <<>>,
     result |-> outcome]

\* command_calls with the client call made a second time.
command_calls_twice(cmd, outcome) == <<client_call(cmd, outcome), client_call(cmd, outcome)>>

\* The device-client calls of one command method: "return await
\* self._client.<method>(...)".
command_calls(cmd, outcome) == <<client_call(cmd, outcome)>>

\* The awaited client calls have returned or raised.
calls_settled(calls, outcome) == [i \in DOMAIN calls |-> [calls[i] EXCEPT !.result = outcome]]

\* The options of the config entry an entity method reads.
EntityOptions ==
    [hdmi_stream_toggle : BOOLEAN, cat_stream_toggle : BOOLEAN,
     cec_source_toggle : BOOLEAN, cec_output_toggle : BOOLEAN]

\* The options as they are without an options flow: every toggle defaults to
\* False.
DefaultOptions ==
    [hdmi_stream_toggle |-> FALSE, cat_stream_toggle |-> FALSE,
     cec_source_toggle |-> FALSE, cec_output_toggle |-> FALSE]

\* A call of the entity method name on the entity of the 1-based output
\* output_index (0 for the master entity), with the options it reads, the
\* source name or key it is given, the output whose entity a key event
\* addresses (0 for none), and coordinator.sources as published at the call.
\* draft tells the entity of the draft at the repository root
\* (src/media_player.py) from the entity of the package.
EntityCall(name, output_index, options, argument, remote, published) ==
    [name |-> name, output_index |-> output_index, options |-> options,
     argument |-> argument, remote |-> remote, published |-> published,
     draft |-> FALSE]

\* The same call on the entity of the draft.
DraftCall(call) == [call EXCEPT !.draft = TRUE]

\* source_list: the names of the sources of the list srcs, in its order.
SourceNames(srcs) == [i \in DOMAIN srcs |-> srcs[i].name]

\* A command method of the coordinator is called: it calls the device client
\* and is suspended until that call ends.  Callers exist once the first
\* refresh has built the client.
coordinator_command(cmd) ==
    /\ entity_pc = "idle"
    /\ client
    /\ lastCommand' = Some(cmd)
    /\ clientCalls' = command_calls(cmd, Pending)
    /\ commandReturn' = None
    /\ entity_result' = Raised("never", "")
    /\ refreshRequests' = 0
    /\ entityMethod' = None
    /\ entity_pc' = "awaiting"
    /\ UNCHANGED <<setupOutputs, plan, issued>>
    /\ UNCHANGED <<coordinator_vars, legacy_vars, host_vars>>

\* The client call of a command method called directly returns or raises, and
\* the command method returns or raises the same.
coordinator_command_returns(outcome) ==
    /\ entity_pc = "awaiting"
    /\ entityMethod.none
    /\ clientCalls' = calls_settled(clientCalls, outcome)
    /\ commandReturn' = Some(outcome)
    /\ entity_pc' = "idle"
    /\ UNCHANGED <<lastCommand, entity_result, refreshRequests>>
    /\ UNCHANGED player_vars
    /\ UNCHANGED <<coordinator_vars, legacy_vars, host_vars>>

\* The 1-based position of the first source named name, 0 when there is none.
FirstNamed(srcs, name) ==
    IF \E i \in DOMAIN srcs : srcs[i].name = name
    THEN CHOOSE i \in DOMAIN srcs :
             /\ srcs[i].name = name
             /\ \A j \in DOMAIN srcs : srcs[j].name = name => i <= j
    ELSE 0

\* The source names an entity is asked to select.
SourceChoices == Range(SubSeq(SourceNameTable, 1, MaxSources)) \cup {"Unknown"}

\* JtechMediaPlayer.async_select_source up to its first await: the loop over
\* coordinator.sources (TypeError when that is None) calls the coordinator
\* command for the first source of that name and is suspended in it; without
\* such a source the refresh request is next.  The entities exist once a
\* first refresh has succeeded.
entity_select_source(output_index, source) ==
    /\ entity_pc = "idle"
    /\ ~data.none
    /\ refreshRequests' = 0
    /\ entityMethod' = Some(EntityCall("async_select_source", output_index, DefaultOptions,
                                       source, 0, sources))
    /\ commandReturn' = None
    /\ UNCHANGED <<setupOutputs, plan, issued>>
    /\ IF sources.none
       THEN /\ entity_result' = Raised("TypeError", "")
            /\ lastCommand' = None
            /\ clientCalls' = <<>>
            /\ UNCHANGED entity_pc
       ELSE LET idx == FirstNamed(sources.val, source)
                cmd == [method |-> "async_select_source", ints |-> <<output_index, idx>>]
            IN  /\ entity_result' = Raised("running", "")
                /\ IF idx = 0
                   THEN /\ lastCommand' = None
                        /\ clientCalls' = <<>>
                        /\ entity_pc' = "refresh"
                   ELSE /\ lastCommand' = Some(cmd)
                        /\ clientCalls' = command_calls(cmd, Pending)
                        /\ entity_pc' = "awaiting"
    /\ UNCHANGED <<coordinator_vars, legacy_vars, host_vars>>

\* JtechMasterMediaPlayer.async_turn_on / async_turn_off up to the await of
\* the power command.
entity_master_power(on) ==
    /\ entity_pc = "idle"
    /\ ~data.none
    /\ refreshRequests' = 0
    /\ entityMethod' = Some(EntityCall(IF on THEN "master_turn_on" ELSE "master_turn_off", 0,
                                       DefaultOptions, "", 0, sources))
    /\ UNCHANGED <<setupOutputs, plan, issued>>
    /\ LET cmd == [method |-> IF on THEN "async_power_on" ELSE "async_power_off",
                   ints |-> <<>>]
       IN  /\ lastCommand' = Some(cmd)
           /\ clientCalls' = command_calls(cmd, Pending)
    /\ commandReturn' = None
    /\ entity_pc' = "awaiting"
    /\ entity_result' = Raised("running", "")
    /\ UNCHANGED <<coordinator_vars, legacy_vars, host_vars>>

\* The command awaited by async_select_source or by the master entity returns
\* or raises: what it raises leaves the entity method, otherwise the refresh
\* request is next.
entity_command_returns(outcome) ==
    /\ entity_pc = "awaiting"
    /\ ~entityMethod.none
    /\ entityMethod.val.name \in {"async_select_source", "master_turn_on", "master_turn_off"}
    /\ ~entityMethod.val.draft
    /\ clientCalls' = calls_settled(clientCalls, outcome)
    /\ commandReturn' = Some(outcome)
    /\ IF outcome.exc = "none"
       THEN /\ entity_pc' = "refresh"
            /\ UNCHANGED entity_result
       ELSE /\ entity_pc' = "idle"
            /\ entity_result' = Raised(outcome.exc, "")
    /\ UNCHANGED <<lastCommand, refreshRequests>>
    /\ UNCHANGED player_vars
    /\ UNCHANGED <<coordinator_vars, legacy_vars, host_vars>>

\* async_select_source of the draft's entity up to its first await: the same
\* loop over coordinator.sources; without a source of the name the method
\* has ended, for it requests no refresh.
draft_select_source(output_index, source) ==
    /\ entity_pc = "idle"
    /\ ~data.none
    /\ refreshRequests' = 0
    /\ entityMethod' = Some(DraftCall(EntityCall("async_select_source", output_index,
                                                 DefaultOptions, source, 0, sources)))
    /\ commandReturn' = None
    /\ UNCHANGED <<setupOutputs, plan, issued>>
    /\ IF sources.none
       THEN /\ entity_result' = Raised("TypeError", "")
            /\ lastCommand' = None
            /\ clientCalls' = <<>>
            /\ UNCHANGED entity_pc
       ELSE LET idx == FirstNamed(sources.val, source)
                cmd == [method |-> "async_select_source", ints |-> <<output_index, idx>>]
            IN  IF idx = 0
                THEN /\ lastCommand' = None
                     /\ clientCalls' = <<>>
                     /\ entity_result' = Ok
                     /\ UNCHANGED entity_pc
                ELSE /\ lastCommand' = Some(cmd)
                     /\ clientCalls' = command_calls(cmd, Pending)
                     /\ entity_result' = Raised("running", "")
                     /\ entity_pc' = "awaiting"
    /\ UNCHANGED <<coordinator_vars, legacy_vars, host_vars>>

\* The command awaited by async_select_source of the draft's entity returns
\* or raises: the method returns None or lets the exception out.
draft_select_returns(outcome) ==
    /\ entity_pc = "awaiting"
    /\ ~entityMethod.none
    /\ entityMethod.val.name = "async_select_source"
    /\ entityMethod.val.draft
    /\ clientCalls' = calls_settled(clientCalls, outcome)
    /\ commandReturn' = Some(outcome)
    /\ entity_pc' = "idle"
    /\ entity_result' = IF outcome.exc = "none" THEN Ok ELSE Raised(outcome.exc, "")
    /\ UNCHANGED <<lastCommand, refreshRequests>>
    /\ UNCHANGED player_vars
    /\ UNCHANGED <<coordinator_vars, legacy_vars, host_vars>>

\* The last statement of an entity method: await async_request_refresh().
\* The method calls it in the resumption in which its last command returned,
\* whatever the coordinator is doing, and is suspended in it.
entity_request_refresh ==
    /\ entity_pc = "refresh"
    /\ refreshRequests' = refreshRequests + 1
    /\ entity_pc' = "refreshing"
    /\ UNCHANGED <<entity_result, lastCommand, clientCalls, commandReturn>>
    /\ UNCHANGED player_vars
    /\ UNCHANGED <<coordinator_vars, legacy_vars, host_vars>>

\* The request starts its poll cycle of the coordinator, once no other cycle
\* is running.
entity_refresh_starts ==
    /\ entity_pc = "refreshing"
    /\ IF cycle < MaxCycles THEN ensure_started ELSE ensure_started_steady
    /\ entity_pc' = "refresh_cycle"
    /\ UNCHANGED <<entity_result, lastCommand, clientCalls, commandReturn, refreshRequests>>
    /\ UNCHANGED player_vars
    /\ UNCHANGED <<legacy_vars, host_vars>>

\* The cycle run for the refresh request has ended, returning or raising:
\* the request returns either way and the entity method returns None.
entity_refresh_returns ==
    /\ entity_pc = "refresh_cycle"
    /\ pc = "idle"
    /\ entity_pc' = "idle"
    /\ entity_result' = Ok
    /\ UNCHANGED <<lastCommand, clientCalls, commandReturn, refreshRequests>>
    /\ UNCHANGED player_vars
    /\ UNCHANGED <<coordinator_vars, legacy_vars, host_vars>>

\* The results of a fan-out drawn while commands are followed: the reference
\* responses, with the output and the source fetch failing or not.
EntityResponses ==
    {r \in DeviceResponses :
        /\ \A e \in Endpoints \ {"output", "source"} : r[e] = Reference[e]
        /\ \A e \in {"output", "source"} : r[e] \in {None, Reference[e]}}

EntityNext ==
    \/ client_ensure
    \/ \E outcome \in ConnectOutcomes : client_connect(outcome)
    \/ \E r \in EntityResponses : fetch_status(r)
    \/ async_update_data
    \/ \E cmd \in CoordinatorCommands : coordinator_command(cmd)
    \/ \E outcome \in CallOutcomes : coordinator_command_returns(outcome)
    \/ \E output_index \in 1..MaxOutputs, source \in SourceChoices :
           entity_select_source(output_index, source)
    \/ \E on \in BOOLEAN : entity_master_power(on)
    \/ \E outcome \in CallOutcomes : entity_command_returns(outcome)
    \/ \E output_index \in 1..MaxOutputs, source \in SourceChoices :
           draft_select_source(output_index, source)
    \/ \E outcome \in CallOutcomes : draft_select_returns(outcome)
    \/ entity_request_refresh
    \/ entity_refresh_starts
    \/ entity_refresh_returns

SpecEntity == Init /\ [][EntityNext]_all_vars

(***************************************************************************)
(* The per-output media player: platform setup, async_turn_on and          *)
(* async_turn_off one command at a time, and the HomeKit key events.       *)
(***************************************************************************)
\* async_setup_entry of the platform, after a refresh that succeeded: one
\* entity per element of coordinator.outputs; when that is None, enumerate
\* raises TypeError and no entity is created.
media_player_setup ==
    /\ setupOutputs.none
    /\ entity_pc = "idle"
    /\ pc = "idle"
    /\ result = Ok
    /\ entityMethod' = Some(EntityCall("async_setup_entry", 0, DefaultOptions, "", 0, sources))
    /\ IF outputs.none
       THEN /\ entity_result' = Raised("TypeError", "")
            /\ UNCHANGED setupOutputs
       ELSE /\ entity_result' = Ok
            /\ setupOutputs' = Some(Len(outputs.val))
    /\ lastCommand' = None
    /\ clientCalls' = <<>>
    /\ commandReturn' = None
    /\ refreshRequests' = 0
    /\ UNCHANGED <<entity_pc, plan, issued>>
    /\ UNCHANGED <<coordinator_vars, legacy_vars, host_vars>>

\* turn_on_plan with the source selection (5) sent before the power-on commands.
turn_on_plan_select_first(o) ==
    (IF o.hdmi_stream_toggle THEN <<"enable_output">> ELSE <<>>)
    \o (IF o.cat_stream_toggle THEN <<"enable_cat_output">> ELSE <<>>)
    \o (IF o.cec_output_toggle
        THEN <<"cec_output_select", "cec_source_on", "cec_output_on">> ELSE <<>>)

\* The commands of async_turn_on in the order of its statements.  The
\* asyncio.sleep calls between them only suspend the method.
turn_on_plan(o) ==
    (IF o.hdmi_stream_toggle THEN <<"enable_output">> ELSE <<>>)
    \o (IF o.cat_stream_toggle THEN <<"enable_cat_output">> ELSE <<>>)
    \o (IF o.cec_output_toggle
        THEN <<"cec_source_on", "cec_output_on", "cec_output_select">> ELSE <<>>)

\* The commands of async_turn_off in the order of its statements.
turn_off_plan(o) ==
    (IF o.cec_output_toggle THEN <<"cec_output_off">> ELSE <<>>)
    \o (IF o.cec_source_toggle THEN <<"cec_source_off">> ELSE <<>>)
    \o (IF o.hdmi_stream_toggle THEN <<"disable_output">> ELSE <<>>)
    \o (IF o.cat_stream_toggle THEN <<"disable_cat_output">> ELSE <<>>)

\* The coordinator command a step calls; outs is coordinator.outputs, read by
\* _async_send_cec_source for the source routed to the output.
step_command(step, output_index, outs) ==
    CASE step = "enable_output" -> [method |-> "async_enable_output", ints |-> <<output_index>>]
      [] step = "enable_cat_output" ->
            [method |-> "async_enable_cat_output", ints |-> <<output_index>>]
      [] step = "disable_output" ->
            [method |-> "async_disable_output", ints |-> <<output_index>>]
      [] step = "disable_cat_output" ->
            [method |-> "async_disable_cat_output", ints |-> <<output_index>>]
      [] step = "cec_output_on" ->
            [method |-> "async_send_cec_output", ints |-> <<output_index, 0>>]
      [] step = "cec_output_off" ->
            [method |-> "async_send_cec_output", ints |-> <<output_index, 1>>]
      [] step = "cec_output_select" ->
            [method |-> "async_send_cec_output", ints |-> <<output_index, 5>>]
      [] step = "cec_source_on" ->
            [method |-> "async_send_cec_source", ints |-> <<outs[output_index].source, 1>>]
      [] OTHER ->
            [method |-> "async_send_cec_source", ints |-> <<outs[output_index].source, 2>>]

\* What a command call does while async_turn_on / async_turn_off runs.
PlayerOutcomes == {Returned(TRUE), Threw("JtechConnectionError")}

\* async_turn_on (on) or async_turn_off of the entity of output_index is
\* called with the entry's options.
entity_turn_power(on, output_index, options) ==
    /\ entity_pc = "idle"
    /\ ~setupOutputs.none
    /\ output_index \in 1..setupOutputs.val
    /\ entityMethod' = Some(EntityCall(IF on THEN "async_turn_on" ELSE "async_turn_off",
                                       output_index, options, "", 0, sources))
    /\ plan' = IF on THEN turn_on_plan(options) ELSE turn_off_plan(options)
    /\ issued' = <<>>
    /\ entity_pc' = IF plan' = <<>> THEN "refresh" ELSE "power"
    /\ entity_result' = Raised("running", "")
    /\ lastCommand' = None
    /\ clientCalls' = <<>>
    /\ commandReturn' = None
    /\ refreshRequests' = 0
    /\ UNCHANGED setupOutputs
    /\ UNCHANGED <<coordinator_vars, legacy_vars, host_vars>>

\* The next command of the running method is called and the method is
\* suspended in it.  The commands to the routed source first index
\* coordinator.outputs (TypeError when that is None, IndexError when it is too
\* short), which leaves the method.
entity_power_step ==
    /\ entity_pc = "power"
    /\ plan # <<>>
    /\ LET call == entityMethod.val
           step == Head(plan)
       IN  IF /\ step \in {"cec_source_on", "cec_source_off"}
              /\ (outputs.none \/ call.output_index > Len(outputs.val))
           THEN /\ entity_result' = Raised(IF outputs.none THEN "TypeError" ELSE "IndexError", "")
                /\ entity_pc' = "idle"
                /\ plan' = <<>>
                /\ UNCHANGED <<lastCommand, clientCalls, commandReturn, issued>>
           ELSE LET cmd == step_command(step, call.output_index, outputs.val)
                IN  /\ lastCommand' = Some(cmd)
                    /\ clientCalls' = command_calls(cmd, Pending)
                    /\ commandReturn' = None
                    /\ issued' = Append(issued, cmd)
                    /\ entity_pc' = "awaiting"
                    /\ UNCHANGED <<entity_result, plan>>
    /\ UNCHANGED <<refreshRequests, setupOutputs, entityMethod>>
    /\ UNCHANGED <<coordinator_vars, legacy_vars, host_vars>>

\* The command awaited by async_turn_on / async_turn_off returns or raises:
\* what it raises leaves the method, otherwise the next statement follows.
entity_power_returns(outcome) ==
    /\ entity_pc = "awaiting"
    /\ ~entityMethod.none
    /\ entityMethod.val.name \in {"async_turn_on", "async_turn_off"}
    /\ clientCalls' = calls_settled(clientCalls, outcome)
    /\ commandReturn' = Some(outcome)
    /\ IF outcome.exc = "none"
       THEN /\ plan' = Tail(plan)
            /\ entity_pc' = IF Tail(plan) = <<>> THEN "refresh" ELSE "power"
            /\ UNCHANGED entity_result
       ELSE /\ plan' = <<>>
            /\ entity_pc' = "idle"
            /\ entity_result' = Raised(outcome.exc, "")
    /\ UNCHANGED <<lastCommand, refreshRequests, setupOutputs, entityMethod, issued>>
    /\ UNCHANGED <<coordinator_vars, legacy_vars, host_vars>>

\* key_name_mapping of _handle_tv_remote_key_press; 0 stands for the None of
\* a key that is not in the mapping.
KeyCode(key) ==
    CASE key = "KEY_ARROW_UP" -> 3
      [] key = "KEY_ARROW_LEFT" -> 4
      [] key = "KEY_ARROW_RIGHT" -> 6
      [] key = "KEY_ARROW_DOWN" -> 8
      [] key = "KEY_SELECT" -> 5
      [] key = "KEY_INFORMATION" -> 7
      [] key = "KEY_BACK" -> 9
      [] key = "KEY_REWIND" -> 13
      [] key = "KEY_FAST_FORWARD" -> 15
      [] OTHER -> 0

\* The keys of the events drawn: two of the mapping and one that is not in it.
EventKeys == {"KEY_SELECT", "KEY_REWIND", "KEY_PLAY_PAUSE"}

\* _handle_tv_remote_key_press of the entity of output_index receives the
\* event of key for the entity of output remote (0: for another device).  For
\* its own id and a mapped key the handler evaluates
\* self._async_send_cec_source(cec_command) without awaiting it: the
\* coroutine object is created and dropped, its body never runs, and no
\* command is called.
key_press(call) ==
    /\ entity_pc = "idle"
    /\ ~setupOutputs.none
    /\ call.output_index \in 1..setupOutputs.val
    /\ entityMethod' = Some(call)
    /\ plan' = <<>>
    /\ issued' = <<>>
    /\ entity_result' = Ok
    /\ lastCommand' = None
    /\ clientCalls' = <<>>
    /\ commandReturn' = None
    /\ refreshRequests' = 0
    /\ UNCHANGED <<entity_pc, setupOutputs>>
    /\ UNCHANGED <<coordinator_vars, legacy_vars, host_vars>>

entity_key_press(output_index, remote, key) ==
    /\ key \in EventKeys
    /\ key_press(EntityCall("_handle_tv_remote_key_press", output_index, DefaultOptions,
                            key, remote, sources))

\* The handler of the draft's entity: the same statements.
draft_key_press(output_index, remote, key) ==
    /\ key \in EventKeys
    /\ key_press(DraftCall(EntityCall("_handle_tv_remote_key_press", output_index,
                                      DefaultOptions, key, remote, sources)))

\* A method of the draft's entity that reads an option first: the draft reads
\* its options from self._coordinator.options, an attribute no coordinator
\* has, so AttributeError leaves the method before any command.
draft_reads_options(name, output_index) ==
    /\ entity_pc = "idle"
    /\ ~setupOutputs.none
    /\ output_index \in 1..setupOutputs.val
    /\ entityMethod' = Some(DraftCall(EntityCall(name, output_index, DefaultOptions, "", 0,
                                                 sources)))
    /\ plan' = <<>>
    /\ issued' = <<>>
    /\ entity_result' = Raised("AttributeError", "")
    /\ lastCommand' = None
    /\ clientCalls' = <<>>
    /\ commandReturn' = None
    /\ refreshRequests' = 0
    /\ UNCHANGED <<entity_pc, setupOutputs>>
    /\ UNCHANGED <<coordinator_vars, legacy_vars, host_vars>>

\* async_turn_on (on) or async_turn_off of the draft's entity.
draft_turn_power(on, output_index) ==
    /\ on \in BOOLEAN
    /\ draft_reads_options(IF on THEN "async_turn_on" ELSE "async_turn_off", output_index)

\* The entity methods that send one CEC code and request no refresh.
VolumeMethods == {"async_volume_up", "async_volume_down", "async_volume_mute"}
MediaMethods ==
    {"async_media_previous_track", "async_media_next_track", "async_media_play",
     "async_media_stop", "async_media_pause"}

\* The code a volume method sends to the output.
OutputCode(name) ==
    CASE name = "async_volume_up" -> 4
      [] name = "async_volume_down" -> 3
      [] OTHER -> 2

\* The code a volume or media method sends to the routed source.
SourceCode(name) ==
    CASE name = "async_volume_up" -> 19
      [] name = "async_volume_down" -> 18
      [] name = "async_volume_mute" -> 17
      [] name = "async_media_previous_track" -> 10
      [] name = "async_media_next_track" -> 12
      [] name = "async_media_play" -> 11
      [] name = "async_media_stop" -> 16
      [] OTHER -> 14

\* The values of the option cec_volume_control ("none" is its default).
VolumeControls == {"none", "output", "source"}

\* The method name of the entity of output_index sends its code to target:
\* to the output, to the source routed to it (indexing coordinator.outputs
\* first, which raises when that is None or too short), or, for "none",
\* nowhere.  The method is suspended in the command it calls.
entity_send_cec(name, output_index, target, draft) ==
    /\ entity_pc = "idle"
    /\ ~setupOutputs.none
    /\ output_index \in 1..setupOutputs.val
    /\ entityMethod' = Some([EntityCall(name, output_index, DefaultOptions, target, 0, sources)
                                 EXCEPT !.draft = draft])
    /\ plan' = <<>>
    /\ commandReturn' = None
    /\ refreshRequests' = 0
    /\ IF target = "none"
       THEN /\ entity_result' = Ok
            /\ lastCommand' = None
            /\ clientCalls' = <<>>
            /\ issued' = <<>>
            /\ UNCHANGED entity_pc
       ELSE IF target = "source" /\ (outputs.none \/ output_index > Len(outputs.val))
       THEN /\ entity_result' = Raised(IF outputs.none THEN "TypeError" ELSE "IndexError", "")
            /\ lastCommand' = None
            /\ clientCalls' = <<>>
            /\ issued' = <<>>
            /\ UNCHANGED entity_pc
       ELSE LET cmd == IF target = "output"
                       THEN [method |-> "async_send_cec_output",
                             ints |-> <<output_index, OutputCode(name)>>]
                       ELSE [method |-> "async_send_cec_source",
                             ints |-> <<outputs.val[output_index].source, SourceCode(name)>>]
            IN  /\ lastCommand' = Some(cmd)
                /\ clientCalls' = command_calls(cmd, Pending)
                /\ issued' = <<cmd>>
                /\ entity_pc' = "awaiting"
                /\ entity_result' = Raised("running", "")
    /\ UNCHANGED setupOutputs
    /\ UNCHANGED <<coordinator_vars, legacy_vars, host_vars>>

\* async_volume_up / async_volume_down / async_volume_mute through
\* _async_volume_send_cec, with the value control of cec_volume_control.
entity_volume(name, output_index, control) ==
    /\ name \in VolumeMethods
    /\ entity_send_cec(name, output_index, control, FALSE)

\* async_media_previous_track / next_track / play / stop / pause: the code
\* goes to the routed source.
entity_media(name, output_index) ==
    /\ name \in MediaMethods
    /\ entity_send_cec(name, output_index, "source", FALSE)

\* async_volume_up / async_volume_down / async_volume_mute of the draft's
\* entity: _async_volume_send reads the option volume_control first.
draft_volume(name, output_index) ==
    /\ name \in VolumeMethods
    /\ draft_reads_options(name, output_index)

\* The media methods of the draft's entity: the same statements.
draft_media(name, output_index) ==
    /\ name \in MediaMethods
    /\ entity_send_cec(name, output_index, "source", TRUE)

\* The command awaited by a volume or media method returns or raises: the
\* method returns None or lets the exception out, and requests no refresh.
entity_cec_returns(outcome) ==
    /\ entity_pc = "awaiting"
    /\ ~entityMethod.none
    /\ entityMethod.val.name \in VolumeMethods \cup MediaMethods
    /\ clientCalls' = calls_settled(clientCalls, outcome)
    /\ commandReturn' = Some(outcome)
    /\ entity_pc' = "idle"
    /\ entity_result' = IF outcome.exc = "none" THEN Ok ELSE Raised(outcome.exc, "")
    /\ UNCHANGED <<lastCommand, refreshRequests>>
    /\ UNCHANGED player_vars
    /\ UNCHANGED <<coordinator_vars, legacy_vars, host_vars>>

\* The results of a fan-out drawn while the entities are followed: the
\* reference responses, with the output status as it is, one output shorter,
\* or failing.
PlayerResponses ==
    {r \in DeviceResponses :
        /\ \A e \in Endpoints \ {"output"} : r[e] = Reference[e]
        /\ r.output \in {None, Reference.output,
                          Some(OutputStatus(Repeat(1, MaxOutputs - 1)))}}

PlayerNext ==
    \/ client_ensure
    \/ \E outcome \in ConnectOutcomes : client_connect(outcome)
    \/ \E r \in PlayerResponses : fetch_status(r)
    \/ async_update_data
    \/ media_player_setup
    \/ \E on \in BOOLEAN, output_index \in 1..MaxOutputs, options \in EntityOptions :
           entity_turn_power(on, output_index, options)
    \/ entity_power_step
    \/ \E outcome \in PlayerOutcomes : entity_power_returns(outcome)
    \/ entity_request_refresh
    \/ entity_refresh_starts
    \/ entity_refresh_returns
    \/ \E output_index \in 1..MaxOutputs, remote \in 0..MaxOutputs, key \in EventKeys :
           entity_key_press(output_index, remote, key)
    \/ \E name \in VolumeMethods, output_index \in 1..MaxOutputs, control \in VolumeControls :
           entity_volume(name, output_index, control)
    \/ \E name \in MediaMethods, output_index \in 1..MaxOutputs :
           entity_media(name, output_index)
    \/ \E outcome \in PlayerOutcomes : entity_cec_returns(outcome)
    \/ \E on \in BOOLEAN, output_index \in 1..MaxOutputs : draft_turn_power(on, output_index)
    \/ \E output_index \in 1..MaxOutputs, remote \in 0..MaxOutputs, key \in EventKeys :
           draft_key_press(output_index, remote, key)
    \/ \E name \in VolumeMethods, output_index \in 1..MaxOutputs :
           draft_volume(name, output_index)
    \/ \E name \in MediaMethods, output_index \in 1..MaxOutputs :
           draft_media(name, output_index)

SpecPlayer == Init /\ [][PlayerNext]_all_vars

\* JtechCoordinator(hass, entry) as async_setup_entry constructs it: every
\* field as __init__ sets it.
coordinator_constructed ==
    /\ pc' = "idle"
    /\ client' = FALSE
    /\ connected' = FALSE
    /\ outputs' = Some(<<>>)
    /\ sources' = Some(<<>>)
    /\ data' = None
    /\ statuses' = None
    /\ failed' = {}
    /\ result' = Raised("never", "")
    /\ connectCalls' = 0
    /\ connectOutcome' = "none"
    /\ fetchIssued' = FALSE
    /\ cycle' = 0
    /\ outputsCycle' = 0
    /\ sourcesCycle' = 0
    /\ dataCycle' = 0
    /\ clientsConstructed' = 0
    /\ settled' = [e \in Endpoints |-> "unstarted"]
    /\ fetchExceptions' = {}

(***************************************************************************)
(* The config flow (config_flow.py), one action per form shown, form       *)
(* submitted and call awaited.                                             *)
(***************************************************************************)
\* What a call of the client does in the flow.
FlowOutcomes == {"ok", "JtechAuthError", "JtechNotSupported", "JtechError", "Exception"}

\* The classes the except clauses of async_step_authorize catch.
JtechErrors == {"JtechAuthError", "JtechNotSupported", "JtechError"}

\* The user and password a user submits in the authorize form.
SubmittedCredentials == {"Admin:admin", "Admin:secret", "User:user"}

\* errors["base"] of the except clause that catches exc.
authorize_error(exc) ==
    CASE exc = "JtechAuthError" -> "invalid_auth"
      [] exc = "JtechNotSupported" -> "unsupported_model"
      [] OTHER -> "cannot_connect"

\* One call of _async_client_connect with the credentials of self._data.
ConnectCall(submitted, outcome) ==
    Some([creds |-> flow_creds, submitted |-> submitted, outcome |-> outcome])

\* async_step_user without input: the form of the host is shown.
flow_user_form ==
    /\ flow_step = "start"
    /\ flow_step' = "user"
    /\ UNCHANGED <<flow_entry, flow_creds, flow_errors, flow_connect, flow_submitted,
                   entry_created, entry_updated>>
    /\ UNCHANGED reload_pc
    /\ UNCHANGED <<coordinator_vars, legacy_vars, entity_vars, player_vars, setup_vars>>

\* async_step_user with a host: an invalid host shows the form again with
\* invalid_host; a valid one enters async_step_authorize without input, which
\* builds a client and, self.entry being None, stores User/user and starts
\* the first probe.
flow_user_submit(valid) ==
    /\ flow_step = "user"
    /\ IF valid
       THEN /\ flow_step' = "probe_user"
            /\ flow_creds' = "User:user"
            /\ flow_errors' = ""
       ELSE /\ flow_step' = "user"
            /\ flow_errors' = "invalid_host"
            /\ UNCHANGED flow_creds
    /\ UNCHANGED <<flow_entry, flow_connect, flow_submitted, entry_created, entry_updated>>
    /\ UNCHANGED reload_pc
    /\ UNCHANGED <<coordinator_vars, legacy_vars, entity_vars, player_vars, setup_vars>>

\* The first probe returns or raises (the bare except passes over whatever it
\* raises); Admin/admin is stored and the second probe starts.
flow_probe_user(outcome) ==
    /\ flow_step = "probe_user"
    /\ flow_connect' = ConnectCall(FALSE, outcome)
    /\ flow_creds' = "Admin:admin"
    /\ flow_step' = "probe_admin"
    /\ UNCHANGED <<flow_entry, flow_errors, flow_submitted, entry_created, entry_updated>>
    /\ UNCHANGED reload_pc
    /\ UNCHANGED <<coordinator_vars, legacy_vars, entity_vars, player_vars, setup_vars>>

\* The second probe returns or raises; the authorize form is shown without
\* errors.
flow_probe_admin(outcome) ==
    /\ flow_step = "probe_admin"
    /\ flow_connect' = ConnectCall(FALSE, outcome)
    /\ flow_step' = "authorize"
    /\ flow_errors' = ""
    /\ UNCHANGED <<flow_entry, flow_creds, flow_submitted, entry_created, entry_updated>>
    /\ UNCHANGED reload_pc
    /\ UNCHANGED <<coordinator_vars, legacy_vars, entity_vars, player_vars, setup_vars>>

\* async_step_reauth: self.entry is set, self._data is the data of the entry,
\* and async_step_authorize without input shows the form (no probe, self.entry
\* being set).
flow_reauth ==
    /\ flow_step = "start"
    /\ flow_entry' = TRUE
    /\ flow_creds' = "entry"
    /\ flow_step' = "authorize"
    /\ flow_errors' = ""
    /\ UNCHANGED <<flow_connect, flow_submitted, entry_created, entry_updated>>
    /\ UNCHANGED reload_pc
    /\ UNCHANGED <<coordinator_vars, legacy_vars, entity_vars, player_vars, setup_vars>>

\* async_step_authorize with input: a client is built, the submitted user and
\* password are stored, and connect is awaited.
flow_authorize_submit(creds) ==
    /\ flow_step = "authorize"
    /\ flow_creds' = creds
    /\ flow_submitted' = TRUE
    /\ flow_step' = "connect"
    /\ UNCHANGED <<flow_entry, flow_errors, flow_connect, entry_created, entry_updated>>
    /\ UNCHANGED reload_pc
    /\ UNCHANGED <<coordinator_vars, legacy_vars, entity_vars, player_vars, setup_vars>>

\* The connect inside the try of async_step_authorize: a JtechError shows the
\* form again with its error, any other exception leaves the step, a return
\* enters _async_update_entry or _async_create_entry, which awaits connect
\* again.
flow_authorize_connect(outcome) ==
    /\ flow_step = "connect"
    /\ flow_connect' = ConnectCall(TRUE, outcome)
    /\ IF outcome = "ok"
       THEN /\ flow_step' = IF flow_entry THEN "update_connect" ELSE "create_connect"
            /\ flow_errors' = ""
       ELSE IF outcome \in JtechErrors
       THEN /\ flow_step' = "authorize"
            /\ flow_errors' = authorize_error(outcome)
       ELSE /\ flow_step' = "raised"
            /\ flow_errors' = ""
    /\ UNCHANGED <<flow_entry, flow_creds, flow_submitted, entry_created, entry_updated>>
    /\ UNCHANGED reload_pc
    /\ UNCHANGED <<coordinator_vars, legacy_vars, entity_vars, player_vars, setup_vars>>

\* The connect of _async_create_entry, outside every try: what it raises
\* leaves the step.
flow_create_connect(outcome) ==
    /\ flow_step = "create_connect"
    /\ flow_connect' = ConnectCall(TRUE, outcome)
    /\ flow_step' = IF outcome = "ok" THEN "create_status" ELSE "raised"
    /\ UNCHANGED <<flow_entry, flow_creds, flow_errors, flow_submitted,
                   entry_created, entry_updated>>
    /\ UNCHANGED reload_pc
    /\ UNCHANGED <<coordinator_vars, legacy_vars, entity_vars, player_vars, setup_vars>>

\* get_status of _async_create_entry returns or raises; with the status the
\* unique id is set and the flow aborts when an entry has it already.
flow_create_status(outcome, configured) ==
    /\ flow_step = "create_status"
    /\ flow_step' = IF outcome # "ok" THEN "raised"
                    ELSE IF configured THEN "already_configured" ELSE "create_web"
    /\ UNCHANGED <<flow_entry, flow_creds, flow_errors, flow_connect, flow_submitted,
                   entry_created, entry_updated>>
    /\ UNCHANGED reload_pc
    /\ UNCHANGED <<coordinator_vars, legacy_vars, entity_vars, player_vars, setup_vars>>

\* get_web_details returns or raises (the bare except turns that into None)
\* and the entry is created with self._data.
flow_create_entry(outcome) ==
    /\ flow_step = "create_web"
    /\ entry_created' = TRUE
    /\ flow_step' = "created"
    /\ UNCHANGED <<flow_entry, flow_creds, flow_errors, flow_connect, flow_submitted,
                   entry_updated>>
    /\ UNCHANGED reload_pc
    /\ UNCHANGED <<coordinator_vars, legacy_vars, entity_vars, player_vars, setup_vars>>

\* The connect of _async_update_entry, outside every try; when it returns
\* the entry is updated with self._data and its reload is awaited.
flow_update_connect(outcome) ==
    /\ flow_step = "update_connect"
    /\ flow_connect' = ConnectCall(TRUE, outcome)
    /\ IF outcome = "ok"
       THEN /\ entry_updated' = TRUE
            /\ flow_step' = "reload"
            /\ reload_pc' = "unload"
       ELSE /\ flow_step' = "raised"
            /\ UNCHANGED <<entry_updated, reload_pc>>
    /\ UNCHANGED <<flow_entry, flow_creds, flow_errors, flow_submitted, entry_created>>
    /\ UNCHANGED <<coordinator_vars, legacy_vars, entity_vars, player_vars, setup_vars>>

\* The reload unloads the entry first.  A loaded entry is unloaded through
\* async_unload_entry, which is now awaited; an entry that is not loaded or
\* whose set-up failed counts as unloaded; an entry in the middle of a set-up
\* or an unload, or one whose unload failed, cannot be unloaded and the
\* exception of the reload leaves the step.
flow_reload_unload ==
    /\ flow_step = "reload"
    /\ reload_pc = "unload"
    /\ IF entry_state = "loaded"
       THEN /\ entry_state' = "unloading"
            /\ reload_pc' = "unloading"
            /\ UNCHANGED flow_step
       ELSE IF entry_state \in {"not_loaded", "setup_failed"}
       THEN /\ entry_state' = "not_loaded"
            /\ reload_pc' = "setup"
            /\ UNCHANGED flow_step
       ELSE /\ flow_step' = "raised"
            /\ reload_pc' = "none"
            /\ UNCHANGED entry_state
    /\ UNCHANGED <<flow_entry, flow_creds, flow_errors, flow_connect, flow_submitted,
                   entry_created, entry_updated>>
    /\ UNCHANGED <<registered, platforms, firstRefresh, lastUnload>>
    /\ UNCHANGED <<coordinator_vars, legacy_vars, entity_vars, player_vars>>

\* async_unload_entry has returned to the reload: the entry is set up again
\* when it was unloaded, and the reload ends when it was not.
flow_reload_unloaded ==
    /\ flow_step = "reload"
    /\ reload_pc = "unloading"
    /\ entry_state \in {"not_loaded", "failed_unload"}
    /\ reload_pc' = IF entry_state = "not_loaded" THEN "setup" ELSE "done"
    /\ UNCHANGED <<flow_step, flow_entry, flow_creds, flow_errors, flow_connect,
                   flow_submitted, entry_created, entry_updated>>
    /\ UNCHANGED <<coordinator_vars, legacy_vars, entity_vars, player_vars, setup_vars>>

\* The reload sets the unloaded entry up: async_setup_entry runs up to the
\* await of the first refresh.
flow_reload_setup ==
    /\ flow_step = "reload"
    /\ reload_pc = "setup"
    /\ entry_state = "not_loaded"
    /\ reload_pc' = "setting_up"
    /\ entry_state' = "first_refresh"
    /\ firstRefresh' = "none"
    /\ coordinator_constructed
    /\ UNCHANGED <<flow_step, flow_entry, flow_creds, flow_errors, flow_connect,
                   flow_submitted, entry_created, entry_updated>>
    /\ UNCHANGED <<registered, platforms, lastUnload>>
    /\ UNCHANGED <<legacy_vars, entity_vars, player_vars>>

\* The reload of the entry has ended (the entry is loaded, its set-up
\* failed, or its unload failed); the flow aborts with reauth_successful.
flow_update_reloaded ==
    /\ flow_step = "reload"
    /\ \/ reload_pc = "done"
       \/ reload_pc = "setting_up" /\ entry_state \in {"loaded", "setup_failed"}
    /\ flow_step' = "reauth_successful"
    /\ reload_pc' = "none"
    /\ UNCHANGED <<flow_entry, flow_creds, flow_errors, flow_connect, flow_submitted,
                   entry_created, entry_updated>>
    /\ UNCHANGED <<coordinator_vars, legacy_vars, entity_vars, player_vars, setup_vars>>

(***************************************************************************)
(* Setting up and unloading the config entry (__init__.py).                *)
(***************************************************************************)
\* async_setup_entry up to the await of the first refresh: a coordinator is
\* constructed (every field as __init__ sets it) and nothing is registered.
\* An entry is set up when it is not loaded or when an earlier setup failed.
setup_begin ==
    /\ entry_state \in {"not_loaded", "setup_failed"}
    /\ entry_state' = "first_refresh"
    /\ firstRefresh' = "none"
    /\ coordinator_constructed
    /\ UNCHANGED <<registered, platforms, lastUnload>>
    /\ UNCHANGED <<legacy_vars, entity_vars, player_vars, flow_vars>>

\* A cycle of the coordinator of the entry starts: the first refresh awaited
\* by async_setup_entry, the refresh the set-up of the media_player platform
\* awaits while the platforms are forwarded, or a scheduled refresh once the
\* entry is loaded.
setup_client_ensure ==
    /\ \/ entry_state = "first_refresh" /\ cycle = 0
       \/ entry_state = "forwarding" /\ cycle = 1
       \/ entry_state = "loaded"
    /\ client_ensure

\* A scheduled refresh of the loaded entry starts once the counted cycles
\* are used up.
setup_client_ensure_steady ==
    /\ entry_state = "loaded"
    /\ client_ensure_steady

\* async_config_entry_first_refresh has ended.  It raises when the refresh
\* failed, which leaves async_setup_entry before anything is registered;
\* otherwise the coordinator is stored under the entry id and the forwarding
\* of the platforms is awaited.
setup_refreshed ==
    /\ entry_state = "first_refresh"
    /\ pc = "idle"
    /\ cycle = 1
    /\ IF result = Ok
       THEN /\ firstRefresh' = "ok"
            /\ registered' = TRUE
            /\ entry_state' = "forwarding"
       ELSE /\ firstRefresh' = "failed"
            /\ entry_state' = "setup_failed"
            /\ UNCHANGED registered
    /\ UNCHANGED <<platforms, lastUnload>>
    /\ UNCHANGED <<coordinator_vars, legacy_vars, entity_vars, player_vars, flow_vars>>

\* The refresh awaited by the set-up of the media_player platform has ended
\* and the set-up goes on: it creates one entity per element of
\* coordinator.outputs, or raises (the refresh failed, or outputs is None)
\* and creates none.  The platform's exception stays inside the forwarding,
\* async_forward_entry_setups ends and async_setup_entry returns True.
setup_forwarded ==
    /\ entry_state = "forwarding"
    /\ pc = "idle"
    /\ cycle = 2
    /\ platforms' = TRUE
    /\ entry_state' = "loaded"
    /\ entityMethod' = Some(EntityCall("async_setup_entry", 0, DefaultOptions, "", 0, sources))
    /\ IF result # Ok
       THEN /\ entity_result' = Raised(IF result.exc = "ConfigEntryAuthFailed"
                                        THEN "ConfigEntryAuthFailed"
                                        ELSE "ConfigEntryNotReady", "")
            /\ UNCHANGED setupOutputs
       ELSE IF outputs.none
       THEN /\ entity_result' = Raised("TypeError", "")
            /\ UNCHANGED setupOutputs
       ELSE /\ entity_result' = Ok
            /\ setupOutputs' = Some(Len(outputs.val))
    /\ lastCommand' = None
    /\ clientCalls' = <<>>
    /\ commandReturn' = None
    /\ refreshRequests' = 0
    /\ UNCHANGED <<entity_pc, plan, issued>>
    /\ UNCHANGED <<registered, firstRefresh, lastUnload>>
    /\ UNCHANGED <<coordinator_vars, legacy_vars, flow_vars>>

\* async_unload_entry up to the await of async_unload_platforms.
unload_begin ==
    /\ entry_state = "loaded"
    /\ entry_state' = "unloading"
    /\ UNCHANGED <<registered, platforms, firstRefresh, lastUnload>>
    /\ UNCHANGED <<coordinator_vars, legacy_vars, entity_vars, player_vars, flow_vars>>

\* registered_after_unload with the pop done whatever unload_ok is.
registered_after_unload_always(unload_ok, reg) == FALSE

\* "if unload_ok: hass.data[DOMAIN].pop(config_entry.entry_id)".
registered_after_unload(unload_ok, reg) == IF unload_ok THEN FALSE ELSE reg

\* async_unload_platforms has returned unload_ok; unloaded platforms have
\* removed their entities.
unload_done(unload_ok) ==
    /\ entry_state = "unloading"
    /\ registered' = registered_after_unload(unload_ok, registered)
    /\ platforms' = IF unload_ok THEN FALSE ELSE platforms
    /\ lastUnload' = IF unload_ok THEN "ok" ELSE "failed"
    /\ entry_state' = IF unload_ok THEN "not_loaded" ELSE "failed_unload"
    /\ setupOutputs' = IF unload_ok THEN None ELSE setupOutputs
    /\ UNCHANGED <<firstRefresh, entityMethod, plan, issued>>
    /\ UNCHANGED <<coordinator_vars, legacy_vars, entity_vars, flow_vars>>

SetupNext ==
    \/ setup_begin
    \/ setup_client_ensure
    \/ setup_client_ensure_steady
    \/ \E outcome \in ConnectOutcomes : client_connect(outcome)
    \/ \E r \in OutageResponses : fetch_status(r)
    \/ async_update_data
    \/ setup_refreshed
    \/ setup_forwarded
    \/ unload_begin
    \/ \E unload_ok \in BOOLEAN : unload_done(unload_ok)

SpecSetup == Init /\ [][SetupNext]_all_vars

(***************************************************************************)
(* The config flow beside the entry it reloads.                            *)
(***************************************************************************)
\* The entry of the integration is set up and unloaded by the host beside
\* the flow, except while the flow's reload has it.
flow_entry_setup_begin ==
    /\ reload_pc = "none"
    /\ setup_begin

flow_entry_unload_begin ==
    /\ reload_pc = "none"
    /\ unload_begin

\* The results of a fan-out drawn while the flow is followed: the reference
\* responses, or every fetch failing.
FlowResponses ==
    {r \in DeviceResponses :
        \/ \A e \in Endpoints : r[e] = Reference[e]
        \/ \A e \in Endpoints : r[e].none}

FlowNext ==
    \/ flow_user_form
    \/ \E valid \in BOOLEAN : flow_user_submit(valid)
    \/ \E outcome \in FlowOutcomes : flow_probe_user(outcome)
    \/ \E outcome \in FlowOutcomes : flow_probe_admin(outcome)
    \/ flow_reauth
    \/ \E creds \in SubmittedCredentials : flow_authorize_submit(creds)
    \/ \E outcome \in FlowOutcomes : flow_authorize_connect(outcome)
    \/ \E outcome \in FlowOutcomes : flow_create_connect(outcome)
    \/ \E outcome \in FlowOutcomes, configured \in BOOLEAN : flow_create_status(outcome, configured)
    \/ \E outcome \in FlowOutcomes : flow_create_entry(outcome)
    \/ \E outcome \in FlowOutcomes : flow_update_connect(outcome)
    \/ flow_reload_unload
    \/ flow_reload_unloaded
    \/ flow_reload_setup
    \/ flow_update_reloaded
    \/ flow_entry_setup_begin
    \/ setup_client_ensure
    \/ setup_client_ensure_steady
    \/ \E outcome \in ConnectOutcomes : client_connect(outcome)
    \/ \E r \in FlowResponses : fetch_status(r)
    \/ async_update_data
    \/ setup_refreshed
    \/ setup_forwarded
    \/ flow_entry_unload_begin
    \/ \E unload_ok \in BOOLEAN : unload_done(unload_ok)

SpecFlow == Init /\ [][FlowNext]_all_vars

(***************************************************************************)
(* The earlier coordinator (_coordinator.py): sequential fetches into      *)
(* attributes, one action per await.                                       *)
(***************************************************************************)
\* What a call of the device client can raise.
ClientErrors == {"JtechAuthError", "JtechConnectionError", "JtechConnectionTimeout", "Exception"}

\* The fetches of a cycle in the order they are awaited; the status fetch is
\* made only by the cycle that connected.
LegacyFetches == <<"status", "video", "source", "output", "system">>

\* The position after a fetch.
legacy_after(step) ==
    CASE step = "connect" -> "status"
      [] step = "status" -> "video"
      [] step = "video" -> "source"
      [] step = "source" -> "output"
      [] step = "output" -> "system"
      [] OTHER -> "idle"

\* The responses of the device client drawn for each fetch.
LegacyResponses(step) ==
    CASE step = "status" ->
            {[power |-> p, model |-> m, version |-> "1.2"] :
                p \in BOOLEAN, m \in {"", "JTECH-8KHDMX44"}}
      [] step = "video" ->
            {[power |-> p, selected_sources |-> Repeat(1, MaxOutputs),
              source_names |-> SubSeq(SourceNameTable, 1, MaxSources),
              output_names |-> SubSeq(OutputNameTable, 1, MaxOutputs)] : p \in BOOLEAN}
      [] step = "source" ->
            {[power |-> p, source_names |-> n] :
                p \in BOOLEAN, n \in {<<>>, SubSeq(SourceNameTable, 1, MaxSources)}}
      [] step = "output" ->
            {[power |-> p, selected_sources |-> Repeat(src, MaxOutputs),
              output_names |-> SubSeq(OutputNameTable, 1, MaxOutputs)] :
                p \in BOOLEAN, src \in 1..MaxSources}
      [] OTHER ->
            {[power |-> p, mode |-> 0, version |-> v] : p \in BOOLEAN, v \in {"", "1.3"}}

\* The first except clause of _async_update_data: the exceptions it names.
legacy_device_off(exc) == exc \in {"JtechConnectionError", "JtechConnectionTimeout"}

\* A cycle starts: connect is awaited when not connected, else the first fetch.
legacy_begin ==
    /\ legacy_pc = "idle"
    /\ legacy_cycle < MaxCycles
    /\ legacy_cycle' = legacy_cycle + 1
    /\ legacy_pc' = IF legacy_connected THEN "video" ELSE "connect"
    /\ legacy_raised' = "none"
    /\ legacy_raised_at' = "none"
    /\ UNCHANGED <<legacy_connected, legacy_power, legacy_model, legacy_version,
                   legacy_mode, legacy_outputs_sources, legacy_sources_names,
                   legacy_outputs_names, legacy_result>>
    /\ UNCHANGED <<coordinator_vars, entity_vars, player_vars, host_vars>>

\* The awaited call at the current position raised exc.  A connection error or
\* timeout is taken by the first except clause: the device counts as off and the
\* cycle returns.  Anything else (the ConfigEntryAuthFailed raised for a
\* JtechAuthError of connect included) reaches the clause "except err:", whose
\* expression err is an unbound local: UnboundLocalError leaves the cycle and
\* the body of the clause does not run.
legacy_raise(exc) ==
    /\ legacy_pc \notin {"idle"}
    /\ legacy_raised' = exc
    /\ legacy_raised_at' = legacy_pc
    /\ legacy_pc' = "idle"
    /\ IF legacy_device_off(exc)
       THEN /\ legacy_power' = Some(FALSE)
            /\ legacy_connected' = FALSE
            /\ legacy_result' = Ok
       ELSE /\ legacy_result' = Raised("UnboundLocalError", "")
            /\ UNCHANGED <<legacy_power, legacy_connected>>
    /\ UNCHANGED <<legacy_model, legacy_version, legacy_mode, legacy_outputs_sources,
                   legacy_sources_names, legacy_outputs_names, legacy_cycle>>
    /\ UNCHANGED <<coordinator_vars, entity_vars, player_vars, host_vars>>

\* client.connect returned.
legacy_connect_ok ==
    /\ legacy_pc = "connect"
    /\ legacy_connected' = TRUE
    /\ legacy_pc' = legacy_after("connect")
    /\ UNCHANGED <<legacy_power, legacy_model, legacy_version, legacy_mode,
                   legacy_outputs_sources, legacy_sources_names, legacy_outputs_names,
                   legacy_result, legacy_raised, legacy_raised_at, legacy_cycle>>
    /\ UNCHANGED <<coordinator_vars, entity_vars, player_vars, host_vars>>

\* One of the async_update_* methods ran with the response resp.
legacy_update(resp) ==
    /\ legacy_pc \in Range(LegacyFetches)
    /\ legacy_power' = Some(resp.power)
    /\ legacy_pc' = legacy_after(legacy_pc)
    /\ legacy_result' = IF legacy_pc = "system" THEN Ok ELSE legacy_result
    /\ legacy_model' = IF legacy_pc = "status" /\ resp.model # ""
                       THEN Some(resp.model) ELSE legacy_model
    /\ legacy_version' = IF legacy_pc \in {"status", "system"} /\ resp.version # ""
                         THEN Some(resp.version) ELSE legacy_version
    /\ legacy_mode' = IF legacy_pc = "system" THEN Some(resp.mode) ELSE legacy_mode
    /\ legacy_outputs_sources' = IF legacy_pc \in {"video", "output"}
                                 THEN resp.selected_sources ELSE legacy_outputs_sources
    /\ legacy_sources_names' = IF legacy_pc \in {"video", "source"} /\ resp.source_names # <<>>
                               THEN resp.source_names ELSE legacy_sources_names
    /\ legacy_outputs_names' = IF legacy_pc \in {"video", "output"} /\ resp.output_names # <<>>
                               THEN resp.output_names ELSE legacy_outputs_names
    /\ UNCHANGED <<legacy_connected, legacy_raised, legacy_raised_at, legacy_cycle>>
    /\ UNCHANGED <<coordinator_vars, entity_vars, player_vars, host_vars>>

\* The responses of get_network drawn for async_update_network.
LegacyNetworkResponses ==
    {[power |-> p, model |-> m] : p \in BOOLEAN, m \in {"", "JTECH-8KHDMX44"}}

\* async_update_network, which no cycle calls, is called and its fetch
\* returns resp: power and model are both assigned as they come.
legacy_update_network(resp) ==
    /\ legacy_power' = Some(resp.power)
    /\ legacy_model' = Some(resp.model)
    /\ UNCHANGED <<legacy_pc, legacy_connected, legacy_version, legacy_mode,
                   legacy_outputs_sources, legacy_sources_names, legacy_outputs_names,
                   legacy_result, legacy_raised, legacy_raised_at, legacy_cycle>>
    /\ UNCHANGED <<coordinator_vars, entity_vars, player_vars, host_vars>>

\* The responses of get_cec_status drawn for async_update_cec_status: source
\* names or none, output names, and whether alloutputname is set.
LegacyCecResponses ==
    {[source_names |-> n, output_names |-> SubSeq(OutputNameTable, 2, MaxOutputs + 1),
      alloutputname |-> a] :
        n \in {<<>>, SubSeq(SourceNameTable, 2, MaxSources + 1)}, a \in BOOLEAN}

\* async_update_cec_status, which no cycle calls, is called and its fetch
\* returns resp: the names it carries replace the stored ones.
legacy_update_cec_status(resp) ==
    /\ legacy_sources_names' = IF resp.source_names # <<>>
                               THEN resp.source_names ELSE legacy_sources_names
    /\ legacy_outputs_names' = IF resp.alloutputname
                               THEN resp.output_names ELSE legacy_outputs_names
    /\ UNCHANGED <<legacy_pc, legacy_connected, legacy_power, legacy_model, legacy_version,
                   legacy_mode, legacy_outputs_sources, legacy_result, legacy_raised,
                   legacy_raised_at, legacy_cycle>>
    /\ UNCHANGED <<coordinator_vars, entity_vars, player_vars, host_vars>>

LegacyNext ==
    \/ legacy_begin
    \/ legacy_connect_ok
    \/ \E exc \in ClientErrors : legacy_raise(exc)
    \/ \E resp \in LegacyResponses(legacy_pc) : legacy_update(resp)
    \/ \E resp \in LegacyNetworkResponses : legacy_update_network(resp)
    \/ \E resp \in LegacyCecResponses : legacy_update_cec_status(resp)

SpecLegacy == Init /\ [][LegacyNext]_all_vars

(***************************************************************************)
(* Properties of the poll cycle.                                           *)
(***************************************************************************)
\* The last cycle ran to its return statement and its data was published.
CycleSucceeded == pc = "idle" /\ result = Ok

\* The list behind a published value (no entries when the value is None).
Items(published) == IF published.none THEN <<>> ELSE published.val

\* With indices counted from base on both sides, every source's outputs are
\* exactly the outputs whose source field is that source's index.
InverseMapAt(base) ==
    \A s \in DOMAIN Items(sources) :
        Range(Items(sources)[s].outputs) =
            {o - 1 + base : o \in {x \in DOMAIN Items(outputs) :
                                      Items(outputs)[x].source = s - 1 + base}}

\* C1: after every successful cycle, each published source's outputs list is
\* exactly the set of outputs whose source field equals that source's index,
\* with one index base (0 or 1) used on both sides.
C1_InverseMapping == CycleSucceeded => \E base \in {0, 1} : InverseMapAt(base)

\* C2: after every successful cycle with non-empty outputs and sources, every
\* output's source is a valid 1-based index into the sources of that cycle.
C2_SourceIndexValid ==
    (CycleSucceeded /\ Items(outputs) # <<>> /\ Items(sources) # <<>>)
        => \A o \in DOMAIN Items(outputs) :
               Items(outputs)[o].source \in 1..Len(Items(sources))

\* C3: when only the output-status fetch failed, the cycle does not raise and
\* leaves the outputs list as it was before the cycle.
C3_OutputFetchFailureKeepsOutputs ==
    [][(pc = "fetched" /\ failed = {"output"} /\ pc' = "idle")
           => (result' = Ok /\ outputs' = outputs)]_all_vars

\* C4: whichever endpoints fail after a successful connect, the cycle
\* succeeds; a cycle raises only when its connect step failed, that is, when
\* it never started the fan-out.
C4_FetchFailuresNeverRaise ==
    (pc = "idle" /\ fetchIssued) => result = Ok

\* C5: a connect that fails with an authentication error ends the cycle with
\* ConfigEntryAuthFailed, leaves connected false and starts no fetch; the cycle
\* that follows calls connect again.
C5_AuthFailure ==
    /\ (pc = "idle" /\ connectOutcome = "JtechAuthError")
           => /\ result = Raised("ConfigEntryAuthFailed", ERROR_AUTH_FAILED)
              /\ ~connected
              /\ ~fetchIssued
    /\ (pc # "idle" /\ result.exc = "ConfigEntryAuthFailed") => connectCalls = 1

\* C5 witness: the cycle after an authentication failure has called connect.
C5_Witness ==
    /\ pc = "connecting"
    /\ result.exc = "ConfigEntryAuthFailed"
    /\ connectCalls = 1
    /\ ~connected

\* C7: outputs, sources and data always come from one and the same cycle; a
\* cycle that raises changes none of them.
C7_SnapshotFromOneCycle ==
    outputsCycle = sourcesCycle /\ sourcesCycle = dataCycle

\* The endpoint whose fetch fills each key of the combined status.
Owner(key) ==
    CASE key \in {"power", "model", "version"} -> "status"
      [] key \in {"baudrate_index", "beep", "lock", "mode"} -> "system"
      [] key = "title" -> "web_details"
      [] OTHER -> "network"

\* C8: from one successful cycle to the next, a scalar field (other than
\* power) whose owning fetch failed keeps the value it had.
C8_FailedFetchKeepsField ==
    [][(pc = "fetched" /\ result = Ok /\ pc' = "idle" /\ result' = Ok)
           => \A key \in DOMAIN data.val \ {"power"} :
                  Owner(key) \in failed
                      => (key \in DOMAIN data'.val /\ data'.val[key] = data.val[key])]_all_vars

\* C9: after every successful cycle the published data has the keys power,
\* model, version, hostname and ipaddress.
C9_RequiredKeys ==
    CycleSucceeded
        => {"power", "model", "version", "hostname", "ipaddress"} \subseteq DOMAIN data.val

\* The endpoints that report power, in the claimed order of precedence.
PowerOrder == <<"status", "output", "source", "system">>

\* The last endpoint of PowerOrder that is not in the set failedNow.
LastSucceeded(failedNow) ==
    PowerOrder[CHOOSE i \in DOMAIN PowerOrder :
        /\ PowerOrder[i] \notin failedNow
        /\ \A j \in DOMAIN PowerOrder : j > i => PowerOrder[j] \in failedNow]

\* C10 as stated: the published power is the value of the last endpoint, in
\* the order status, output, source, system, whose fetch succeeded, and is
\* defined whenever one of them succeeded.
C10_PowerPrecedence ==
    [][(pc = "fetched" /\ pc' = "idle" /\ result' = Ok
            /\ Range(PowerOrder) \ failed # {})
           => /\ "power" \in DOMAIN data'.val
              /\ data'.val["power"] = statuses.val[LastSucceeded(failed)].val.power]_all_vars

\* C10 amended: the published power comes from the device-status endpoint
\* alone: it is that endpoint's value when its fetch succeeded and is absent
\* from the data when it failed, whatever the other endpoints returned.
C10_PowerFromStatusOnly ==
    [][(pc = "fetched" /\ pc' = "idle" /\ result' = Ok)
           => IF statuses.val.status.none
              THEN "power" \notin DOMAIN data'.val
              ELSE /\ "power" \in DOMAIN data'.val
                   /\ data'.val["power"] = statuses.val.status.val.power]_all_vars

\* C10 witness: a successful cycle in which the device-status fetch failed
\* while output, source and system status succeeded, and no power is published.
C10_Witness ==
    /\ CycleSucceeded
    /\ "status" \in failed
    /\ failed \cap {"output", "source", "system"} = {}
    /\ "power" \notin DOMAIN data.val

\* C21: when a cycle has ended, connected is true exactly when the cycle
\* returned without raising; the cycle that follows one that raised calls
\* connect.
C21_ConnectedIffSucceeded ==
    /\ (pc = "idle" /\ cycle >= 1) => (connected <=> result = Ok)
    /\ (pc # "idle" /\ result.exc \notin {"never", "none"}) => connectCalls = 1

\* C21 witness: a cycle connected, its reconciliation raised, and the cycle
\* that follows is calling connect again.
C21_Witness ==
    /\ pc = "connecting"
    /\ cycle = 2
    /\ result = Raised("UpdateFailed", ERROR_FETCH_DATA_FAILED)
    /\ ~connected
    /\ connectCalls = 1

\* C13: a cycle starts the fan-out only when it found the session connected
\* (it made no connect call) or its connect call succeeded; a cycle whose
\* connect failed starts no fetch and ends with UpdateFailed, or with
\* ConfigEntryAuthFailed when the failure was an authentication error.
C13_NoFetchWithoutConnect ==
    /\ fetchIssued => (connectCalls = 0 \/ connectOutcome = "ok")
    /\ pc \in {"fetching", "fetched"} => connected
    /\ (pc = "idle" /\ connectOutcome \notin {"none", "ok"})
           => /\ ~fetchIssued
              /\ \A e \in Endpoints : settled[e] = "unstarted"
              /\ result.exc = IF connectOutcome = "JtechAuthError"
                              THEN "ConfigEntryAuthFailed" ELSE "UpdateFailed"

\* C13 witness: the second cycle found the session disconnected, its connect
\* raised a connection error and the cycle ended without starting a fetch.
C13_Witness ==
    /\ pc = "idle"
    /\ cycle = 2
    /\ connectOutcome = "JtechConnectionError"
    /\ ~fetchIssued
    /\ result.exc = "UpdateFailed"

\* C6: when connect fails with a connection error, the cycle of the
\* coordinator ends without raising and leaves connected False and a
\* published power of False.
C6_ConnectErrorIsDeviceOff ==
    (pc = "idle" /\ connectOutcome = "JtechConnectionError")
        => /\ result = Ok
           /\ ~connected
           /\ ~data.none
           /\ "power" \in DOMAIN data.val
           /\ data.val["power"] = FALSE

\* C14: a connect that fails with a connection error or an unclassified
\* exception ends the cycle with UpdateFailed (not ConfigEntryAuthFailed) and
\* connected false; the cycle after an UpdateFailed calls connect again, and
\* when that connect succeeds the cycle is connected and starts the fan-out.
C14_ConnectFailureIsUpdateFailed ==
    /\ (pc = "idle" /\ connectOutcome \in {"JtechConnectionError", "Exception"})
           => /\ result.exc = "UpdateFailed"
              /\ result.msg = IF connectOutcome = "JtechConnectionError"
                              THEN ERROR_CONNECT_FAILED ELSE ERROR_UNKNOWN
              /\ ~connected
    /\ (pc # "idle" /\ result.exc = "UpdateFailed") => connectCalls = 1
    /\ (pc \in {"fetching", "fetched"} /\ connectOutcome = "ok") => (connected /\ fetchIssued)

\* C14 witness: after a cycle that ended with the connect failure, a cycle
\* has connected and its fan-out has returned.
C14_Witness ==
    /\ pc = "fetched"
    /\ result = Raised("UpdateFailed", ERROR_CONNECT_FAILED)
    /\ connectCalls = 1
    /\ connectOutcome = "ok"
    /\ connected

\* C15: while the cycle is suspended on the fan-out every one of the seven
\* fetches has been started; the cycle resumes only when each of them has
\* returned or raised, whatever the others did, and the dict it resumes with
\* holds None exactly for the fetches that raised.
C15_FanoutSettlesAll ==
    /\ pc = "fetching" => \A e \in Endpoints : settled[e] # "unstarted"
    /\ pc = "fetched"
           => \A e \in Endpoints :
                  /\ settled[e] \in {"ok", "failed"}
                  /\ statuses.val[e].none <=> settled[e] = "failed"

\* C15 witness: the cycle resumed after the device-status fetch raised, with
\* the output-status and CEC fetches completed all the same.
C15_Witness ==
    /\ pc = "fetched"
    /\ settled["status"] = "failed"
    /\ settled["output"] = "ok"
    /\ settled["cec"] = "ok"
    /\ ~statuses.val.output.none

\* C23: a cycle in which a status fetch raised JtechAuthError ends in the
\* JtechAuthError clause of _async_update_data: it raises UpdateFailed with
\* the authentication message and leaves connected false.
C23_FetchAuthErrorReported ==
    (pc = "idle" /\ "JtechAuthError" \in fetchExceptions)
        => (result = Raised("UpdateFailed", ERROR_AUTH_FAILED) /\ ~connected)

\* C22: whenever a connected cycle's fan-out has failed for all seven
\* endpoints, connected becomes false at some later point.
C22_OutageLeadsToReconnect ==
    (pc = "fetched" /\ connected /\ failed = Endpoints) ~> ~connected

\* C17: the published outputs and sources are always lists, never None.
C17_OutputsSourcesAreLists == ~outputs.none /\ ~sources.none

\* The fan-out returned the statuses of the scenario: outputs TV1 and TV2
\* with selected_sources [1, 0], sources Blu-ray and Game, CEC-selected
\* outputs {0}.
IsScenario(st) ==
    /\ ~st.output.none /\ ~st.source.none /\ ~st.cec.none
    /\ st.output.val.output_names = <<"TV1", "TV2">>
    /\ st.output.val.selected_sources = <<1, 0>>
    /\ st.source.val.source_names = <<"Blu-ray", "Game">>
    /\ st.cec.val.selected_cec_outputs = {0}

\* C18: the cycle that reconciles the scenario publishes outputs[0] = (TV1,
\* source 1, cec_selected), outputs[1] = (TV2, source 0, not cec_selected),
\* sources[0].outputs = [1] and sources[1].outputs = [0].
C18_Scenario ==
    [][(pc = "fetched" /\ pc' = "idle" /\ IsScenario(statuses.val))
           => /\ result' = Ok
              /\ Len(outputs'.val) = 2 /\ Len(sources'.val) = 2
              /\ outputs'.val[1].name = "TV1" /\ outputs'.val[1].source = 1
              /\ outputs'.val[1].cec_selected
              /\ outputs'.val[2].name = "TV2" /\ outputs'.val[2].source = 0
              /\ ~outputs'.val[2].cec_selected
              /\ sources'.val[1].outputs = <<1>>
              /\ sources'.val[2].outputs = <<0>>]_all_vars

\* C20: the coordinator builds at most one device client, a cycle calls
\* connect at most once and only while connected is false, and every cycle
\* after the first runs on the client built by the first.
C20_OneClient ==
    /\ clientsConstructed <= 1
    /\ client <=> clientsConstructed = 1
    /\ pc = "connecting" => (~connected /\ connectCalls = 1)
    /\ (pc # "connecting" /\ connectCalls = 1) => connectOutcome # "pending"

\* C20 witness: the second cycle is reconnecting after a failed one, on the
\* only client built.
C20_Witness ==
    /\ pc = "connecting"
    /\ cycle = 2
    /\ result.exc = "UpdateFailed"
    /\ clientsConstructed = 1

(***************************************************************************)
(* Properties of the command path.                                         *)
(***************************************************************************)
\* C11: every entity method that issued a command and has ended returned
\* without raising and made its refresh request, whatever the device client
\* did during the command.
C11_CommandAlwaysRefreshes ==
    (entity_pc = "idle" /\ entity_result.exc # "never" /\ ~lastCommand.none)
        => (entity_result = Ok /\ refreshRequests = 1)

\* C12: a call of a coordinator command method makes exactly one device-client
\* call, with the integer arguments it was given, and returns or raises what
\* that call did; the step changes none of connected, outputs, sources and
\* data, starts no poll cycle and requests no refresh.
C12_CommandIsPassthrough ==
    [][(/\ ~lastCommand'.none
        /\ <<lastCommand, clientCalls, commandReturn>>'
               # <<lastCommand, clientCalls, commandReturn>>)
           => /\ Len(clientCalls') = 1
              /\ clientCalls'[1].ints = lastCommand'.val.ints
              /\ IF commandReturn'.none
                 THEN clientCalls'[1].result = Pending
                 ELSE /\ commandReturn' = Some(clientCalls'[1].result)
                      /\ lastCommand' = lastCommand
                      /\ clientCalls[1].result = Pending
              /\ UNCHANGED <<connected, outputs, sources, data>>
              /\ UNCHANGED <<pc, cycle>>
              /\ refreshRequests' = 0]_all_vars

\* C12 witness: async_select_source(2, 1) was called after a successful
\* cycle, made the one call set_video_source(2, 1) and returned its False.
C12_Witness ==
    /\ ~data.none
    /\ lastCommand = Some([method |-> "async_select_source", ints |-> <<2, 1>>])
    /\ Len(clientCalls) = 1
    /\ clientCalls[1].method = "set_video_source"
    /\ clientCalls[1].ints = <<2, 1>>
    /\ commandReturn = Some(Returned(FALSE))
    /\ entity_result.exc = "never"

\* C28: when async_select_source(name) has ended it has called at most one
\* command: async_select_source(output_index, position) with the 1-based
\* position of the first source of that name, or none when no source has the
\* name; in both cases it has requested a refresh.
C28_SelectFirstMatch ==
    (entity_pc = "idle" /\ ~entityMethod.none
        /\ entityMethod.val.name = "async_select_source")
        => LET call == entityMethod.val
               names == IF call.published.none THEN <<>> ELSE SourceNames(call.published.val)
               matches == {i \in DOMAIN names : names[i] = call.argument}
           IN  /\ Len(clientCalls) <= 1
               /\ IF matches = {}
                  THEN lastCommand.none /\ clientCalls = <<>>
                  ELSE \E first \in matches :
                          /\ \A i \in matches : first <= i
                          /\ lastCommand = Some([method |-> "async_select_source",
                                                 ints |-> <<call.output_index, first>>])
               /\ refreshRequests = 1

(***************************************************************************)
(* Properties of the per-output media player.                              *)
(***************************************************************************)
\* A Python list of length n can be indexed by k (negative indices count
\* from the end).
ValidIndex(k, n) == -n <= k /\ k < n

\* C24: once the platform has created its entities, coordinator.outputs is a
\* list with an element for each of them, and the source each output names
\* indexes coordinator.sources.
C24_EntityIndexStaysValid ==
    ~setupOutputs.none
        => /\ ~outputs.none
           /\ Len(outputs.val) >= setupOutputs.val
           /\ \A i \in 1..setupOutputs.val :
                  /\ ~sources.none
                  /\ ValidIndex(outputs.val[i].source - 1, Len(sources.val))

\* The method called last is method of a per-output entity.
PlayerMethodIs(method) == ~entityMethod.none /\ entityMethod.val.name = method

\* The place of a command in the claimed order of async_turn_on: HDMI enable,
\* CAT enable, the CEC power-on commands, the CEC source selection; 0 for a
\* command that has no place in it.
TurnOnRank(cmd) ==
    CASE cmd.method = "async_enable_output" -> 1
      [] cmd.method = "async_enable_cat_output" -> 2
      [] cmd.method = "async_send_cec_source" /\ cmd.ints[2] = 1 -> 3
      [] cmd.method = "async_send_cec_output" /\ cmd.ints[2] = 0 -> 3
      [] cmd.method = "async_send_cec_output" /\ cmd.ints[2] = 5 -> 4
      [] OTHER -> 0

\* The place of a command in the claimed order of async_turn_off: the CEC
\* power-off commands, HDMI disable, CAT disable.
TurnOffRank(cmd) ==
    CASE cmd.method = "async_send_cec_output" /\ cmd.ints[2] = 1 -> 1
      [] cmd.method = "async_send_cec_source" /\ cmd.ints[2] = 2 -> 1
      [] cmd.method = "async_disable_output" -> 2
      [] cmd.method = "async_disable_cat_output" -> 3
      [] OTHER -> 0

\* C25: the commands async_turn_on has called so far are in the order stream
\* enables (HDMI, CAT), CEC power-on, CEC source selection, those of
\* async_turn_off in the order CEC power-off, stream disables (HDMI, CAT),
\* none is called twice, no refresh is requested while a command is still to
\* come, and a method that returned has requested exactly one refresh.
C25_PowerCommandOrder ==
    (PlayerMethodIs("async_turn_on") \/ PlayerMethodIs("async_turn_off"))
        => /\ \A i, j \in DOMAIN issued :
                  i < j => /\ issued[i] # issued[j]
                           /\ IF PlayerMethodIs("async_turn_on")
                              THEN /\ TurnOnRank(issued[i]) >= 1
                                   /\ TurnOnRank(issued[i]) <= TurnOnRank(issued[j])
                              ELSE /\ TurnOffRank(issued[i]) >= 1
                                   /\ TurnOffRank(issued[i]) <= TurnOffRank(issued[j])
           /\ \A i \in DOMAIN issued :
                  IF PlayerMethodIs("async_turn_on")
                  THEN TurnOnRank(issued[i]) >= 1 ELSE TurnOffRank(issued[i]) >= 1
           /\ entity_pc \in {"power", "awaiting", "refresh"} => refreshRequests = 0
           /\ (entity_pc = "idle" /\ entity_result = Ok) => refreshRequests = 1
           /\ refreshRequests <= 1

\* C25 witness: async_turn_on with every toggle set has returned after its
\* five commands and its refresh request.
C25_Witness ==
    /\ PlayerMethodIs("async_turn_on")
    /\ entity_pc = "idle"
    /\ entity_result = Ok
    /\ Len(issued) = 5
    /\ issued[1].method = "async_enable_output"
    /\ issued[5] = [method |-> "async_send_cec_output",
                    ints |-> <<entityMethod.val.output_index, 5>>]
    /\ refreshRequests = 1

\* Some command called by the running or last method is method(..., code).
IssuedCec(method, code) ==
    \E i \in DOMAIN issued : issued[i].method = method /\ issued[i].ints[2] = code

\* C26: async_turn_on that returned has sent the source power-on command (1)
\* exactly when cec_source_toggle is set, async_turn_off that returned has
\* sent the source power-off command (2) exactly when cec_source_toggle is
\* set, and both have sent commands to the output exactly when
\* cec_output_toggle is set.
C26_SourcePowerGatedBySourceToggle ==
    (entity_pc = "idle" /\ entity_result = Ok)
        => /\ PlayerMethodIs("async_turn_on")
                  => /\ IssuedCec("async_send_cec_source", 1)
                            <=> entityMethod.val.options.cec_source_toggle
                     /\ IssuedCec("async_send_cec_output", 0)
                            <=> entityMethod.val.options.cec_output_toggle
           /\ PlayerMethodIs("async_turn_off")
                  => /\ IssuedCec("async_send_cec_source", 2)
                            <=> entityMethod.val.options.cec_source_toggle
                     /\ IssuedCec("async_send_cec_output", 1)
                            <=> entityMethod.val.options.cec_output_toggle

\* C27: when the handler of an entity has handled a key event for its own id
\* with a key of the mapping, async_send_cec_source was called with the
\* mapped code.
C27_KeyPressSendsCec ==
    (/\ PlayerMethodIs("_handle_tv_remote_key_press")
     /\ entityMethod.val.remote = entityMethod.val.output_index
     /\ KeyCode(entityMethod.val.argument) # 0)
        => IssuedCec("async_send_cec_source", KeyCode(entityMethod.val.argument))

(***************************************************************************)
(* Properties of the config flow.                                          *)
(***************************************************************************)
\* C29: an entry is created or updated only when the last connect was one
\* with the submitted credentials that returned; whenever the last connect
\* with submitted credentials raised a JtechError, the flow is at the
\* authorize form with the error mapped from it (or a new submission is
\* under way) and no entry is created or updated; the probes with the
\* default credentials run only before the first submission of a flow that
\* is not a reauthentication and create no entry.
C29_EntryOnlyAfterConnect ==
    /\ (entry_created \/ entry_updated)
           => /\ ~flow_connect.none
              /\ flow_connect.val = [creds |-> flow_creds, submitted |-> TRUE, outcome |-> "ok"]
              /\ flow_creds \in SubmittedCredentials
    /\ (/\ ~flow_connect.none
        /\ flow_connect.val.submitted
        /\ flow_connect.val.outcome \in JtechErrors)
           => /\ ~entry_created
              /\ ~entry_updated
              /\ \/ /\ flow_step = "authorize"
                    /\ flow_errors = authorize_error(flow_connect.val.outcome)
                 \/ flow_step = "connect"
    /\ flow_step \in {"probe_user", "probe_admin"}
           => ~flow_entry /\ ~flow_submitted /\ ~entry_created /\ ~entry_updated
    /\ (~flow_connect.none /\ ~flow_connect.val.submitted)
           => ~flow_entry /\ flow_connect.val.creds \in {"User:user", "Admin:admin"}

(***************************************************************************)
(* Properties of setting up and unloading the entry.                       *)
(***************************************************************************)
\* C30: a coordinator is registered only after the first refresh of the
\* entry's coordinator succeeded; while the first refresh runs and after it
\* failed nothing is registered and no platform is forwarded; platforms are
\* set up only with a registered coordinator; after an unload of the
\* platforms that succeeded the coordinator is gone, and after one that
\* failed it is still registered.
C30_RegistryFollowsSetup ==
    /\ registered => firstRefresh = "ok"
    /\ entry_state = "first_refresh" => ~registered /\ ~platforms
    /\ entry_state = "setup_failed"
           => firstRefresh = "failed" /\ result # Ok /\ ~registered /\ ~platforms
    /\ entry_state = "forwarding" => registered /\ ~platforms
    /\ platforms => registered
    /\ entry_state \in {"loaded", "unloading"} => registered /\ platforms
    /\ entry_state = "failed_unload" => lastUnload = "failed" /\ registered
    /\ (entry_state = "not_loaded" /\ lastUnload # "none") => lastUnload = "ok" /\ ~registered

\* C30 witness: the unload of the platforms of a loaded entry failed and the
\* coordinator is still registered.
C30_Witness ==
    /\ entry_state = "failed_unload"
    /\ lastUnload = "failed"
    /\ registered
    /\ firstRefresh = "ok"

(***************************************************************************)
(* Properties of the earlier coordinator.                                  *)
(***************************************************************************)
\* C19: a cycle ends by returning or by raising ConfigEntryAuthFailed or
\* UpdateFailed; no other exception leaves _async_update_data.
C19_OnlyTwoConditions ==
    legacy_result.exc \in {"never", "none", "ConfigEntryAuthFailed", "UpdateFailed"}

====
